---- MODULE Spec2Model ----
(***************************************************************************)
(* A model of the collectd StatsD plugin (src/statsd.c): the wire parser,  *)
(* the per-node metric registry behind metrics_lock, the receive thread of *)
(* every node and the periodic reader statsd_read.                         *)
(*                                                                         *)
(* C strings are sequences of one-character strings; a double is an exact  *)
(* rational (or an infinity, or NaN): rounding is not modelled.            *)
(***************************************************************************)
EXTENDS Integers, Sequences, FiniteSets, TLC

VARIABLES
  statsd_threads_num, \* number of configured nodes (statsd_threads[])
  conf,               \* node -> statsd_config_t: node_name, Delete*, Timer*, prefixes
  metrics_tree,       \* node -> (key -> statsd_metric_t): conf->metrics_tree
  metrics_lock,       \* node -> "free" | "recv" | "read": owner of conf->metrics_lock
  sockbuf,            \* node -> datagrams queued on the node's socket
  rpc,                \* node -> position of the node's receive thread
  buffer,             \* node -> rest of the datagram in statsd_parse_buffer, or NULL
  call,               \* node -> the update the current line decoded to
  rd_pc,              \* position of the reader inside statsd_read
  thread_num,         \* statsd_read: index of the node being flushed (0-based)
  iter,               \* statsd_read: keys the iterator has still to return
  to_be_deleted,      \* statsd_read: the strings of the to_be_deleted array
  tbd_dangling,       \* statsd_read: to_be_deleted points to freed memory
  dispatched,         \* records handed to plugin_dispatch_values by this statsd_read
  reads,              \* number of statsd_read invocations so far
  snapshot,           \* history: the registry of the node under flush, as locked
  hist,               \* history: node -> the datagrams received so far
  acct,               \* history: node -> key -> what was applied to the entry
  alloc_fails,        \* environment: allocations that are still going to fail
  sink,               \* environment: value types plugin_dispatch_values refuses
  no_tree,            \* environment: nodes whose conf->metrics_tree is NULL
  vl_time,            \* vl.time of every record of dispatched (0: not set)
  read_ret,           \* the value the last statsd_read returned
  fds,                \* node -> fds.fds of the receive thread (NULL or the array)
  open_fds,           \* node -> the descriptors the node's thread has open
  released,           \* history: node -> runs of statsd_network_release
  cancel_pending,     \* node -> pthread_cancel was called and not yet acted on
  exit_cause,         \* history: node -> how the receive thread ended
  loop_err,           \* history: node -> the last errno the loop went on after
  sd_pc,              \* position of statsd_shutdown
  sd_i,               \* statsd_shutdown: the loop index i
  freed               \* statsd_threads_free has freed the nodes' state

\* The environment's faults.
faults == <<alloc_fails, sink, no_tree>>

\* The receive threads' sockets and the shutdown.
life == <<fds, open_fds, released, cancel_pending, exit_cause, loop_err,
          sd_pc, sd_i, freed>>

vars == <<statsd_threads_num, conf, metrics_tree, metrics_lock, sockbuf, rpc,
          buffer, call, rd_pc, thread_num, iter, to_be_deleted, tbd_dangling,
          dispatched, reads, snapshot, hist, acct, vl_time, read_ret, faults,
          life>>

-----------------------------------------------------------------------------
(* Bounds of the model.                                                    *)

\* statsd_read is invoked at most MaxReads times in a behaviour.
MaxReads == 2

\* At most MaxQueue datagrams are queued on a node's socket initially.
MaxQueue == 2

\* At most MaxAllocFail allocations fail in a behaviour.
MaxAllocFail == 1

\* getaddrinfo returns at most MaxAddr addresses for a node.
MaxAddr == 2

-----------------------------------------------------------------------------
(* C strings.                                                              *)

\* The NULL pointer (no C string contains a multi-character element).
NULL == <<"NULL">>

Min(a, b) == IF a < b THEN a ELSE b

\* The characters of the model's alphabet, in ASCII order.
Charset == <<"\n", "+", "-", ".", "0", "1", "2", "3", "4", "5", "6", "7",
             "8", "9", ":", "?", "@", "a", "b", "c", "d", "e", "f", "g",
             "h", "i", "j", "k", "l", "m", "n", "o", "p", "q", "r", "s",
             "t", "u", "v", "w", "x", "y", "z", "|">>

Ord(ch) == CHOOSE i \in 1..Len(Charset) : Charset[i] = ch

\* strchr: index of the first occurrence of ch in str, 0 when there is none.
strchr(str, ch) ==
  IF \E i \in 1..Len(str) : str[i] = ch
  THEN CHOOSE i \in 1..Len(str) :
         str[i] = ch /\ \A j \in 1..(i - 1) : str[j] # ch
  ELSE 0

\* strrchr: index of the last occurrence of ch in str, 0 when there is none.
strrchr(str, ch) ==
  IF \E i \in 1..Len(str) : str[i] = ch
  THEN CHOOSE i \in 1..Len(str) :
         str[i] = ch /\ \A j \in (i + 1)..Len(str) : str[j] # ch
  ELSE 0

\* strcmp(a, b) < 0, the order of the AVL trees.
RECURSIVE StrLess(_, _)
StrLess(a, b) ==
  IF b = <<>> THEN FALSE
  ELSE IF a = <<>> THEN TRUE
  ELSE IF a[1] # b[1] THEN Ord(a[1]) < Ord(b[1])
  ELSE StrLess(Tail(a), Tail(b))

\* sstrncpy into a buffer of size n: at most n - 1 characters are kept.
sstrncpy(str, n) == SubSeq(str, 1, Min(Len(str), n - 1))

\* The keys of a tree in iteration order (c_avl_iterator_next).
RECURSIVE SortedKeys(_)
SortedKeys(S) ==
  IF S = {} THEN <<>>
  ELSE LET m == CHOOSE x \in S : \A y \in S \ {x} : StrLess(x, y)
       IN  <<m>> \o SortedKeys(S \ {m})

-----------------------------------------------------------------------------
(* Doubles.                                                                *)

RECURSIVE Gcd(_, _)
Gcd(a, b) == IF b = 0 THEN a ELSE Gcd(b, a % b)

Abs(x) == IF x < 0 THEN -x ELSE x

\* The finite double n/d in lowest terms, d > 0.
Fin(n, d) ==
  LET g == Gcd(Abs(n), d)
  IN  [k |-> "fin", n |-> n \div g, d |-> d \div g]

NaN == [k |-> "nan", n |-> 0, d |-> 1]

\* +infinity (s = 1) or -infinity (s = -1).
Inf(s) == [k |-> "inf", n |-> s, d |-> 1]

Zero == Fin(0, 1)

isfinite(x) == x.k = "fin"

Sign(x) == IF x.n < 0 THEN -1 ELSE IF x.n > 0 THEN 1 ELSE 0

\* x + y in IEEE arithmetic.
DAdd(x, y) ==
  IF x.k = "nan" \/ y.k = "nan" THEN NaN
  ELSE IF x.k = "inf" /\ y.k = "inf" THEN (IF x.n = y.n THEN x ELSE NaN)
  ELSE IF x.k = "inf" THEN x
  ELSE IF y.k = "inf" THEN y
  ELSE Fin(x.n * y.d + y.n * x.d, x.d * y.d)

\* x / y in IEEE arithmetic.
DDiv(x, y) ==
  IF x.k = "nan" \/ y.k = "nan" THEN NaN
  ELSE IF x.k = "inf" THEN (IF y.k = "inf" THEN NaN
                            ELSE Inf(IF Sign(y) < 0 THEN -x.n ELSE x.n))
  ELSE IF y.k = "inf" THEN Zero
  ELSE IF y.n = 0 THEN (IF x.n = 0 THEN NaN ELSE Inf(Sign(x)))
  ELSE Fin(x.n * y.d * Sign(y), x.d * Abs(y.n))

\* x <= y and x > y for doubles; both are false when a NaN is involved.
DLeq(x, y) ==
  /\ x.k # "nan" /\ y.k # "nan"
  /\ IF x.k = "inf" THEN (x.n < 0 \/ (y.k = "inf" /\ y.n > 0))
     ELSE IF y.k = "inf" THEN y.n > 0
     ELSE x.n * y.d <= y.n * x.d

DGt(x, y) == x.k # "nan" /\ y.k # "nan" /\ ~DLeq(x, y)

\* (derive_t) x: the integer part of a finite double.
ToDerive(x) ==
  IF x.k # "fin" THEN 0
  ELSE IF x.n >= 0 THEN x.n \div x.d ELSE -((-x.n) \div x.d)

\* The cast of a double that is not finite is undefined: the build may
\* produce any derive_t, of which these stand for all.
UndefinedDerive == {-1, 0, 1}

\* What (derive_t) x can yield.
DeriveCast(x) == IF isfinite(x) THEN {ToDerive(x)} ELSE UndefinedDerive

\* The decimal digits of a natural number.
RECURSIVE Itoa(_)
Itoa(i) ==
  IF i < 10 THEN <<CHOOSE ch \in {"0", "1", "2", "3", "4", "5", "6", "7", "8", "9"} :
                     Ord(ch) - Ord("0") = i>>
  ELSE Itoa(i \div 10) \o Itoa(i % 10)

\* printf ("%.0f", x) for a finite x >= 0: x rounded to the nearest integer,
\* a tie to the even one.
FormatF0(x) ==
  LET q == x.n \div x.d
      r == x.n % x.d
  IN  Itoa(IF 2 * r < x.d THEN q
           ELSE IF 2 * r > x.d THEN q + 1
           ELSE IF q % 2 = 0 THEN q ELSE q + 1)

-----------------------------------------------------------------------------
(* The wire parser.                                                        *)

Digits == <<"0", "1", "2", "3", "4", "5", "6", "7", "8", "9">>

IsDigit(ch) == \E i \in 1..10 : Digits[i] = ch

DigitVal(ch) == (CHOOSE i \in 1..10 : Digits[i] = ch) - 1

\* Number of consecutive digits of str from position p on.
RECURSIVE NDigits(_, _)
NDigits(str, p) ==
  IF p <= Len(str) /\ IsDigit(str[p]) THEN 1 + NDigits(str, p + 1) ELSE 0

\* The value of the k digits of str from position p on, after acc.
RECURSIVE DigitsVal(_, _, _, _)
DigitsVal(str, p, k, acc) ==
  IF k = 0 THEN acc
  ELSE DigitsVal(str, p + 1, k - 1, acc * 10 + DigitVal(str[p]))

RECURSIVE Pow10(_)
Pow10(k) == IF k = 0 THEN 1 ELSE 10 * Pow10(k - 1)

HasAt(str, p, w) ==
  p + Len(w) - 1 <= Len(str) /\ SubSeq(str, p, p + Len(w) - 1) = w

\* strtod on the model's alphabet: an optional sign, then "inf", "nan" or a
\* decimal number with an optional fraction. [end] is the number of
\* characters consumed (endptr - str), 0 when no conversion was done.
strtod(str) ==
  LET signed == Len(str) >= 1 /\ str[1] \in {"+", "-"}
      sgn    == IF Len(str) >= 1 /\ str[1] = "-" THEN -1 ELSE 1
      p      == IF signed THEN 2 ELSE 1
      i      == NDigits(str, p)
      dot    == p + i <= Len(str) /\ str[p + i] = "."
      j      == IF dot THEN NDigits(str, p + i + 1) ELSE 0
      ip     == DigitsVal(str, p, i, 0)
      all    == DigitsVal(str, p + i + 1, j, ip)
  IN  IF HasAt(str, p, <<"i", "n", "f">>)
        THEN [end |-> p + 2, val |-> Inf(sgn)]
      ELSE IF HasAt(str, p, <<"n", "a", "n">>)
        THEN [end |-> p + 2, val |-> NaN]
      ELSE IF i = 0 /\ j = 0
        THEN [end |-> 0, val |-> Zero]
      ELSE IF dot
        THEN [end |-> p + i + j, val |-> Fin(sgn * all, Pow10(j))]
      ELSE [end |-> p + i - 1, val |-> Fin(sgn * ip, 1)]

\* statsd_parse_value: [status, value]; status -1 unless the whole of a
\* non-empty string was converted.
statsd_parse_value(str) ==
  LET r == strtod(str)
  IN  IF r.end = 0 \/ r.end # Len(str)
      THEN [status |-> -1, value |-> r.val]
      ELSE [status |-> 0, value |-> r.val]

\* The update a line decodes to: [status |-> -1] for a rejected line, else
\* the registry operation the handler goes on to perform under the lock.
Rejected == [status |-> -1, op |-> "none", name |-> <<>>, type |-> "none",
             value |-> Zero, member |-> <<>>]

Update(op, name, type, value, member) ==
  [status |-> 0, op |-> op, name |-> name, type |-> type,
   value |-> value, member |-> member]

\* A sample rate that is not checked against the range (0, 1].
ScaleUnchecked(extra) ==
  IF extra = NULL THEN [status |-> 0, value |-> Fin(1, 1)]
  ELSE statsd_parse_value(Tail(extra))

\* The sample rate of a counter or timer line (lines 291-300): [status, scale].
ParseScale(extra) ==
  IF extra = NULL THEN [status |-> 0, value |-> Fin(1, 1)]
  ELSE LET r == statsd_parse_value(Tail(extra))
       IN  IF r.status # 0 THEN [status |-> -1, value |-> r.value]
           ELSE IF ~isfinite(r.value) \/ DLeq(r.value, Zero)
                   \/ DGt(r.value, Fin(1, 1))
             THEN [status |-> -1, value |-> r.value]
           ELSE r

statsd_handle_counter(name, value_str, extra) ==
  IF extra # NULL /\ (extra = <<>> \/ extra[1] # "@") THEN Rejected
  ELSE LET scale == ParseScale(extra)
           value == statsd_parse_value(value_str)
       IN  IF scale.status # 0 THEN Rejected
           ELSE IF value.status # 0 THEN Rejected
           ELSE Update("add", name, "counter",
                       DDiv(value.value, scale.value), <<>>)

\* A gauge handler for which only '+' makes an update relative.
GaugeMinusIsAbsolute(name, value_str) ==
  LET value == statsd_parse_value(value_str)
  IN  IF value.status # 0 THEN Rejected
      ELSE IF value_str[1] = "+"
        THEN Update("add", name, "gauge", value.value, <<>>)
      ELSE Update("set", name, "gauge", value.value, <<>>)

statsd_handle_gauge(name, value_str) ==
  LET value == statsd_parse_value(value_str)
  IN  IF value.status # 0 THEN Rejected
      ELSE IF value_str[1] = "+" \/ value_str[1] = "-"
        THEN Update("add", name, "gauge", value.value, <<>>)
      ELSE Update("set", name, "gauge", value.value, <<>>)

\* The part of statsd_handle_timer before the lock is taken.
statsd_handle_timer(name, value_str, extra) ==
  IF extra # NULL /\ (extra = <<>> \/ extra[1] # "@") THEN Rejected
  ELSE LET scale == ParseScale(extra)
           value == statsd_parse_value(value_str)
       IN  IF scale.status # 0 THEN Rejected
           ELSE IF value.status # 0 THEN Rejected
           ELSE Update("timer", name, "timer",
                       DDiv(value.value, scale.value), <<>>)

\* statsd_handle_set takes the lock at once: the member is the raw value.
statsd_handle_set(name, set_key_orig) ==
  Update("setadd", name, "set", Zero, set_key_orig)

\* The fields statsd_parse_line cuts a line into (lines 447-464): sep is
\* the position of the first '|', colon that of the last ':' before it,
\* extra is NULL when there is no second '|'.
LineFields(line) ==
  LET t     == strchr(line, "|")
      name0 == SubSeq(line, 1, t - 1)
      rest  == SubSeq(line, t + 1, Len(line))
      v     == strrchr(name0, ":")
      e     == strchr(rest, "|")
  IN  [sep   |-> t,
       colon |-> v,
       name  |-> SubSeq(name0, 1, v - 1),
       value |-> SubSeq(name0, v + 1, Len(name0)),
       type  |-> IF e = 0 THEN rest ELSE SubSeq(rest, 1, e - 1),
       extra |-> IF e = 0 THEN NULL ELSE SubSeq(rest, e + 1, Len(rest))]

\* A parser that rejects a line whose name is empty.
ParseLineRejectsEmptyName(line) ==
  LET f == LineFields(line)
  IN  IF f.sep = 0 \/ f.colon = 0 \/ f.name = <<>> THEN Rejected
      ELSE IF f.type = <<"c">>
        THEN statsd_handle_counter(f.name, f.value, f.extra)
      ELSE Rejected

statsd_parse_line(line) ==
  LET f == LineFields(line)
  IN  IF f.sep = 0 THEN Rejected
      ELSE IF f.colon = 0 THEN Rejected
      ELSE IF f.type = <<"c">>
        THEN statsd_handle_counter(f.name, f.value, f.extra)
      ELSE IF f.type = <<"m", "s">>
        THEN statsd_handle_timer(f.name, f.value, f.extra)
      ELSE IF f.extra # NULL THEN Rejected
      ELSE IF f.type = <<"g">> THEN statsd_handle_gauge(f.name, f.value)
      ELSE IF f.type = <<"s">> THEN statsd_handle_set(f.name, f.value)
      ELSE Rejected

\* One pass of the loop of statsd_parse_buffer over buf (not NULL): the
\* line up to the first "\n" and the rest after it (NULL when there is no
\* "\n").
SplitLine(buf) ==
  LET nl == strchr(buf, "\n")
  IN  IF nl = 0 THEN [line |-> buf, next |-> NULL]
      ELSE [line |-> SubSeq(buf, 1, nl - 1),
            next |-> SubSeq(buf, nl + 1, Len(buf))]

\* The loop skips empty lines: what is left of buf from its first non-empty
\* line on, NULL when there is no such line.
RECURSIVE SkipEmpty(_)
SkipEmpty(buf) ==
  IF buf = NULL THEN NULL
  ELSE IF SplitLine(buf).line = <<>> THEN SkipEmpty(SplitLine(buf).next)
  ELSE buf

-----------------------------------------------------------------------------
(* The metric registry.                                                    *)

Types == {"counter", "timer", "gauge", "set"}

\* The host's name-length ceiling (plugin.h), the size of the key buffer.
DATA_MAX_NAME_LEN == 64

\* The first byte of a registry key (lines 148-155).
KeyChar(type) ==
  CASE type = "counter" -> "c"
    [] type = "timer"   -> "t"
    [] type = "gauge"   -> "g"
    [] type = "set"     -> "s"

\* A key that does not tell the types apart.
KeyWithoutType(name, type) == <<"m", ":">> \o sstrncpy(name, DATA_MAX_NAME_LEN)

\* key[0] = type byte, key[1] = ':', then the name, cut to the buffer.
MetricKey(name, type) ==
  <<KeyChar(type), ":">> \o sstrncpy(name, DATA_MAX_NAME_LEN)

\* latency_counter_t *: NULL, or the running count, sum, minimum, maximum.
NoLatency == [null |-> TRUE, num |-> 0, sum |-> Zero, min |-> Zero, max |-> Zero,
              samples |-> <<>>]

\* c_avl_tree_t *set: NULL, or the set of member strings.
NoSet == [null |-> TRUE, members |-> {}]

\* A metric after memset and the assignments of lines 178-182.
NewMetric(type) ==
  [type |-> type, value |-> Zero, latency |-> NoLatency, set |-> NoSet,
   updates_num |-> 0]

\* statsd_metric_lookup_unsafe: the tree after the lookup-or-insert.
statsd_metric_lookup_unsafe(tree, name, type) ==
  LET key == MetricKey(name, type)
  IN  IF key \in DOMAIN tree THEN tree
      ELSE [k \in DOMAIN tree \cup {key} |->
              IF k = key THEN NewMetric(type) ELSE tree[k]]

\* An absolute update that is not counted.
SetWithoutCount(metric, value) == [metric EXCEPT !.value = value]

\* statsd_metric_set, lines 210-211.
statsd_metric_set(metric, value) ==
  [metric EXCEPT !.value = value, !.updates_num = @ + 1]

\* A relative update that overwrites the value.
AddOverwrites(metric, delta) ==
  [metric EXCEPT !.value = delta, !.updates_num = @ + 1]

\* statsd_metric_add, lines 232-233.
statsd_metric_add(metric, delta) ==
  [metric EXCEPT !.value = DAdd(@, delta), !.updates_num = @ + 1]

\* DOUBLE_TO_CDTIME_T: exact for the dyadic durations of the model.
DOUBLE_TO_CDTIME_T(x) == x

CDTIME_T_TO_DOUBLE(t) == t

\* latency_counter_create followed by latency_counter_add.
latency_counter_add(lc, t) ==
  IF lc.null
  THEN [null |-> FALSE, num |-> 1, sum |-> t, min |-> t, max |-> t,
        samples |-> <<t>>]
  ELSE [null |-> FALSE, num |-> lc.num + 1, sum |-> DAdd(lc.sum, t),
        min |-> IF lc.num = 0 \/ DLeq(t, lc.min) THEN t ELSE lc.min,
        max |-> IF lc.num = 0 \/ DLeq(lc.max, t) THEN t ELSE lc.max,
        samples |-> Append(lc.samples, t)]

\* latency_counter_reset: the empty state, without deallocation.
latency_counter_reset(lc) ==
  IF lc.null THEN lc
  ELSE [null |-> FALSE, num |-> 0, sum |-> Zero, min |-> Zero, max |-> Zero,
        samples |-> <<>>]

\* latency_counter_get_num: 0 for a histogram that does not exist.
latency_counter_get_num(lc) == IF lc.null THEN 0 ELSE lc.num

\* latency_counter_get_percentile of a non-empty histogram: the smallest
\* sample that at least p percent of the samples do not exceed (the
\* quantization of the buckets is not modelled).
latency_counter_get_percentile(lc, p) ==
  LET S == {lc.samples[i] : i \in 1..Len(lc.samples)}
      covers(v) ==
        DLeq(Fin(p.n * lc.num, p.d),
             Fin(100 * Cardinality({i \in 1..Len(lc.samples) :
                                      DLeq(lc.samples[i], v)}), 1))
  IN  CHOOSE v \in S : covers(v) /\ \A w \in S : covers(w) => DLeq(v, w)

\* statsd_handle_timer under the lock, lines 368-377.
TimerAdd(metric, value) ==
  [metric EXCEPT !.latency = latency_counter_add(@, DOUBLE_TO_CDTIME_T(value)),
                 !.updates_num = @ + 1]

\* statsd_handle_set under the lock, lines 400-434: c_avl_insert keeps one
\* copy of a member, and updates_num counts duplicates too.
SetAdd(metric, set_key) ==
  [metric EXCEPT !.set = [null |-> FALSE, members |-> @.members \cup {set_key}],
                 !.updates_num = @ + 1]

\* What an update does to the entry it looked up.
ApplyUpdate(metric, c) ==
  CASE c.op = "set"    -> statsd_metric_set(metric, c.value)
    [] c.op = "add"    -> statsd_metric_add(metric, c.value)
    [] c.op = "timer"  -> TimerAdd(metric, c.value)
    [] c.op = "setadd" -> SetAdd(metric, c.member)

\* A lock that is handed out while somebody holds it.
LockNotExclusive(n) == metrics_lock[n] \in {"free", "recv", "read"}

\* pthread_mutex_lock (&conf->metrics_lock) returns only when nobody holds it.
pthread_mutex_lock(n) == metrics_lock[n] = "free"

\* pthread_mutex_unlock (&conf->metrics_lock): the locks when the holder
\* of node n's has released it.
pthread_mutex_unlock(lock, n) == [lock EXCEPT ![n] = "free"]

\* An error return that forgets the lock.
ErrorReturnKeepsLock(lock, n) == lock

\* The error returns of statsd_handle_timer and statsd_handle_set with the
\* entry in hand unlock first (lines 372, 406, 414, 422).
ErrorReturnUnlocks(lock, n) == pthread_mutex_unlock(lock, n)

-----------------------------------------------------------------------------
(* The flush.                                                              *)

\* conf->delete_counters, delete_timers, delete_gauges, delete_sets.
DeleteFlag(c, type) ==
  CASE type = "counter" -> c.delete_counters
    [] type = "timer"   -> c.delete_timers
    [] type = "gauge"   -> c.delete_gauges
    [] type = "set"     -> c.delete_sets

\* Every idle entry is deleted, whatever the Delete* flags.
IdleAlwaysDeleted(c, metric) == metric.updates_num = 0

\* The test of lines 1138-1142.
IdleAndDeletable(c, metric) ==
  metric.updates_num = 0 /\ DeleteFlag(c, metric.type)

TypePrefix(c, type) ==
  CASE type = "counter" -> c.counter_prefix
    [] type = "timer"   -> c.timer_prefix
    [] type = "gauge"   -> c.gauge_prefix
    [] type = "set"     -> c.set_prefix

FullName(c, name, type) ==
  c.global_prefix \o TypePrefix(c, type) \o name \o c.global_postfix

\* One value list as handed to plugin_dispatch_values.
Record(c, type, type_instance, value) ==
  [plugin_instance |-> c.node_name, type |-> type,
   type_instance |-> type_instance, value |-> value]

Suffix(s) ==
  CASE s = "average" -> <<"-", "a", "v", "e", "r", "a", "g", "e">>
    [] s = "lower"   -> <<"-", "l", "o", "w", "e", "r">>
    [] s = "upper"   -> <<"-", "u", "p", "p", "e", "r">>
    [] s = "sum"     -> <<"-", "s", "u", "m">>
    [] s = "count"   -> <<"-", "c", "o", "u", "n", "t">>
    [] s = "percentile" ->
         <<"-", "p", "e", "r", "c", "e", "n", "t", "i", "l", "e", "-">>

\* The loop of lines 1063-1071: one latency record per configured
\* percentile, in the order of conf->timer_percentile.
PercentileRecords(c, full, metric) ==
  [i \in 1..Len(c.timer_percentile) |->
     [plugin_instance |-> c.node_name, type |-> "latency",
      type_instance |-> full \o Suffix("percentile")
                          \o FormatF0(c.timer_percentile[i]),
      value |-> IF metric.updates_num > 0
                THEN CDTIME_T_TO_DOUBLE(
                       latency_counter_get_percentile(metric.latency,
                                                      c.timer_percentile[i]))
                ELSE NaN]]

\* A timer that reports 0 instead of NaN when it has no events.
SubmitTimerZeroWhenIdle(c, name, metric) ==
  LET full == FullName(c, name, "timer")
  IN  <<[plugin_instance |-> c.node_name, type |-> "latency",
         type_instance |-> IF c.leave_metrics_name_asis THEN full
                           ELSE full \o Suffix("average"),
         value |-> Zero]>>
      \o [i \in 1..Len(c.timer_percentile) |->
            [plugin_instance |-> c.node_name, type |-> "latency",
             type_instance |-> full \o Suffix("percentile")
                                 \o FormatF0(c.timer_percentile[i]),
             value |-> Zero]]

\* The timer branch of statsd_metric_submit_unsafe, lines 1020-1085.
SubmitTimer(c, name, metric) ==
  LET full == FullName(c, name, "timer")
      have_events == metric.updates_num > 0
      lc  == metric.latency
      avg == IF have_events
             THEN CDTIME_T_TO_DOUBLE(DDiv(lc.sum, Fin(lc.num, 1))) ELSE NaN
  IN  <<Record(c, "latency",
               IF c.leave_metrics_name_asis THEN full
               ELSE full \o Suffix("average"), avg)>>
      \o (IF c.timer_lower
          THEN <<Record(c, "latency", full \o Suffix("lower"),
                        IF have_events THEN CDTIME_T_TO_DOUBLE(lc.min) ELSE NaN)>>
          ELSE <<>>)
      \o (IF c.timer_upper
          THEN <<Record(c, "latency", full \o Suffix("upper"),
                        IF have_events THEN CDTIME_T_TO_DOUBLE(lc.max) ELSE NaN)>>
          ELSE <<>>)
      \o (IF c.timer_sum
          THEN <<Record(c, "latency", full \o Suffix("sum"),
                        IF have_events THEN CDTIME_T_TO_DOUBLE(lc.sum) ELSE NaN)>>
          ELSE <<>>)
      \o PercentileRecords(c, full, metric)
      \o (IF c.timer_count
          THEN <<Record(c, "gauge", full \o Suffix("count"),
                        Fin(latency_counter_get_num(lc), 1))>>
          ELSE <<>>)

\* A counter that is dispatched as a gauge first and as a derive second.
SubmitGaugeFirst(c, name, metric, derive) ==
  LET full == FullName(c, name, metric.type)
  IN  <<[plugin_instance |-> c.node_name, type |-> "gauge",
         type_instance |-> full, value |-> metric.value],
        [plugin_instance |-> c.node_name, type |-> "derive",
         type_instance |-> full, value |-> Fin(derive, 1)]>>

\* statsd_metric_submit_unsafe: the value lists dispatched for one entry,
\* in order. A derive value is an integer, every other value a double;
\* derive is what the cast of line 1100 yields.
statsd_metric_submit_unsafe(c, name, metric, derive) ==
  LET full == FullName(c, name, metric.type)
  IN  CASE metric.type = "gauge" ->
             <<Record(c, "gauge", full, metric.value)>>
        [] metric.type = "timer" -> SubmitTimer(c, name, metric)
        [] metric.type = "set" ->
             <<Record(c, "objects", full,
                      IF metric.set.null THEN Zero
                      ELSE Fin(Cardinality(metric.set.members), 1))>>
        [] metric.type = "counter" ->
             <<Record(c, "derive", full, Fin(derive, 1)),
               Record(c, "gauge", full, metric.value)>>

\* cdtime (): the clock, which has advanced whenever a value list has been
\* dispatched. 0 is no time.
cdtime == Len(dispatched) + 1

\* A timer whose records are stamped one by one as they are dispatched.
StampEachDispatch(metric, num, now) == [i \in 1..num |-> now + i - 1]

\* vl.time of the num value lists dispatched for one entry: a timer's
\* carry the time taken at line 1026, the others are left at 0
\* (VALUE_LIST_INIT) for the host to fill in.
SubmitTimes(metric, num, now) ==
  [i \in 1..num |-> IF metric.type = "timer" THEN now ELSE 0]

\* plugin_dispatch_values: non-zero when the host refuses the value list.
plugin_dispatch_values(vl, refused) == IF vl.type \in refused THEN -1 ELSE 0

\* A clear that leaves the members in the set.
ClearKeepsMembers(metric) == metric

\* statsd_metric_clear_set_unsafe: every member is picked out of the set.
statsd_metric_clear_set_unsafe(metric) ==
  IF metric.type # "set" \/ metric.set.null THEN metric
  ELSE [metric EXCEPT !.set = [null |-> FALSE, members |-> {}]]

\* A reset that clears the accumulated value as well.
ResetClearsValue(metric) ==
  [metric EXCEPT !.updates_num = 0, !.value = Zero,
                 !.set = [null |-> @.null, members |-> {}]]

\* The entry after lines 1151-1156: the timer's histogram is reset by the
\* submit, updates_num by the walk, a Set's members by the clear.
ResetMetric(metric) ==
  statsd_metric_clear_set_unsafe(
    [metric EXCEPT !.updates_num = 0,
                   !.latency = IF metric.type = "timer"
                               THEN latency_counter_reset(@) ELSE @])

\* The loop of lines 1160-1175: every string of to_be_deleted that is a key
\* of the tree is removed from it (c_avl_remove fails for the others).
RemoveMarked(tree, marked) ==
  [k \in DOMAIN tree \ {marked[i] : i \in 1..Len(marked)} |-> tree[k]]

\* A string read through a pointer into freed memory: what was there when it
\* was freed, or bytes that are no key of any tree.
Garbage == <<"?">>

\* strarray_free leaves to_be_deleted and to_be_deleted_num as they were:
\* the array and its strings are freed, and later reads of them may find
\* either the old bytes or anything else.
Stale(marked) ==
  {s \in [1..Len(marked) -> {marked[i] : i \in 1..Len(marked)} \cup {Garbage}] :
     \A i \in 1..Len(marked) : s[i] \in {marked[i], Garbage}}

-----------------------------------------------------------------------------
(* Datagrams.                                                              *)

\* The size of the receive buffer of statsd_network_read.
BufferSize == 4096

\* a:1|c\na:1|c|@0.5\n
DgCounter == <<"a", ":", "1", "|", "c", "\n", "a", ":", "1", "|", "c", "|",
    "@", "0", ".", "5", "\n">>

\* a:x|s\na:x|s\n
DgSet == <<"a", ":", "x", "|", "s", "\n", "a", ":", "x", "|", "s", "\n">>

\* a:y|s
DgSetY == <<"a", ":", "y", "|", "s">>

\* a:5|g\na:+3|g\na:2|ms\n
DgGauge == <<"a", ":", "5", "|", "g", "\n", "a", ":", "+", "3", "|", "g",
    "\n", "a", ":", "2", "|", "m", "s", "\n">>

\* b|c\n\na:1|c|@2\na:1|c|@0\na:1|c|@x\na:1|c|@inf\na:1|c|x\nb:1|c\n
DgBad == <<"b", "|", "c", "\n", "\n", "a", ":", "1", "|", "c", "|", "@",
    "2", "\n", "a", ":", "1", "|", "c", "|", "@", "0", "\n", "a", ":", "1",
    "|", "c", "|", "@", "x", "\n", "a", ":", "1", "|", "c", "|", "@", "i",
    "n", "f", "\n", "a", ":", "1", "|", "c", "|", "x", "\n", "b", ":", "1",
    "|", "c", "\n">>

\* page.views:1|c\npage.views:1|c|@0.1\n
DgS1 == <<"p", "a", "g", "e", ".", "v", "i", "e", "w", "s", ":", "1", "|",
    "c", "\n", "p", "a", "g", "e", ".", "v", "i", "e", "w", "s", ":", "1",
    "|", "c", "|", "@", "0", ".", "1", "\n">>

\* temp:72|g\ntemp:+3|g\ntemp:-5|g\n
DgS2 == <<"t", "e", "m", "p", ":", "7", "2", "|", "g", "\n", "t", "e", "m",
    "p", ":", "+", "3", "|", "g", "\n", "t", "e", "m", "p", ":", "-", "5",
    "|", "g", "\n">>

\* login:a|s\nlogin:b|s\nlogin:a|s\n
DgS3 == <<"l", "o", "g", "i", "n", ":", "a", "|", "s", "\n", "l", "o", "g",
    "i", "n", ":", "b", "|", "s", "\n", "l", "o", "g", "i", "n", ":", "a",
    "|", "s", "\n">>

\* broken|c\n:5|c\nok:1|c\n
DgS5 == <<"b", "r", "o", "k", "e", "n", "|", "c", "\n", ":", "5", "|", "c",
    "\n", "o", "k", ":", "1", "|", "c", "\n">>

\* rt:10|ms\nrt:20|ms\nrt:30|ms\n
DgS4 == <<"r", "t", ":", "1", "0", "|", "m", "s", "\n", "r", "t", ":", "2",
    "0", "|", "m", "s", "\n", "r", "t", ":", "3", "0", "|", "m", "s",
    "\n">>

\* a:-2.5|c\nb:inf|c\n
DgDerive == <<"a", ":", "-", "2", ".", "5", "|", "c", "\n", "b", ":", "i", "n",
    "f", "|", "c", "\n">>

\* The traffic of the general specification.
Datagrams == {DgCounter, DgSet, DgSetY, DgGauge}

\* The datagrams of the end-to-end scenarios S1, S2, S3 and S5, and one of
\* mostly malformed lines.
ScenarioDatagrams == {DgS1, DgS2, DgS3, DgS5, DgBad}

\* The non-empty queues of at most n datagrams out of D.
Queues(D, n) == UNION {[1..k -> D] : k \in 1..n}

-----------------------------------------------------------------------------
(* Configuration and the initial state.                                    *)

\* A node as statsd_config_alloc and statsd_config_node leave it: the
\* Delete* options as configured, every other option at its default.
NodeConf(name, del) ==
  [node_name |-> name,
   delete_counters |-> del["counter"], delete_timers |-> del["timer"],
   delete_gauges |-> del["gauge"], delete_sets |-> del["set"],
   timer_lower |-> FALSE, timer_upper |-> FALSE, timer_sum |-> FALSE,
   timer_count |-> FALSE, leave_metrics_name_asis |-> FALSE,
   timer_percentile |-> <<>>,
   global_prefix |-> <<>>, counter_prefix |-> <<>>, timer_prefix |-> <<>>,
   gauge_prefix |-> <<>>, set_prefix |-> <<>>, global_postfix |-> <<>>]

\* The Timer* options: none (the default), S4's TimerUpper with
\* TimerPercentile 90, every series with the percentiles 90 and 50.
TimerDefault == [lower |-> FALSE, upper |-> FALSE, sum |-> FALSE,
                 count |-> FALSE, percentile |-> <<>>]

TimerS4 == [lower |-> FALSE, upper |-> TRUE, sum |-> FALSE, count |-> FALSE,
            percentile |-> <<Fin(90, 1)>>]

TimerAll == [lower |-> TRUE, upper |-> TRUE, sum |-> TRUE, count |-> TRUE,
             percentile |-> <<Fin(90, 1), Fin(50, 1)>>]

\* A node with the Timer* options tm.
NodeConfTimer(name, del, tm) ==
  [NodeConf(name, del) EXCEPT
     !.timer_lower = tm.lower, !.timer_upper = tm.upper,
     !.timer_sum = tm.sum, !.timer_count = tm.count,
     !.timer_percentile = tm.percentile]

NodeNames == <<"node1", "node2">>

DeleteNone == [t \in Types |-> FALSE]

DeleteAll == [t \in Types |-> TRUE]

DeleteOnly(T) == [t \in Types |-> t \in T]

Nodes == 1..statsd_threads_num

\* The state after statsd_config and statsd_init for num nodes with the
\* options cf[n] and the datagrams queue[n] on their way to node n, in an
\* environment where af allocations fail and the host refuses the value
\* types sk, and where c_avl_create has failed in statsd_config_alloc for
\* the nodes nt (line 650, the result is not checked). The receive threads
\* exist; if started, each is past statsd_network_init with one socket and
\* waits in poll.
InitAll(num, cf, queue, af, sk, started, nt) ==
  /\ statsd_threads_num = num
  /\ conf = cf
  /\ metrics_tree = [n \in 1..num |-> <<>>]
  /\ metrics_lock = [n \in 1..num |-> "free"]
  /\ sockbuf = queue
  /\ rpc = [n \in 1..num |-> IF started THEN "poll" ELSE "init"]
  /\ buffer = [n \in 1..num |-> NULL]
  /\ call = [n \in 1..num |-> Rejected]
  /\ rd_pc = "idle"
  /\ thread_num = 0
  /\ iter = <<>>
  /\ to_be_deleted = <<>>
  /\ tbd_dangling = FALSE
  /\ dispatched = <<>>
  /\ reads = 0
  /\ snapshot = <<>>
  /\ hist = [n \in 1..num |-> <<>>]
  /\ acct = [n \in 1..num |-> <<>>]
  /\ alloc_fails = [limit |-> af, num |-> 0]
  /\ sink = sk
  /\ no_tree = nt
  /\ vl_time = <<>>
  /\ read_ret = 0
  /\ fds = [n \in 1..num |-> IF started THEN <<1>> ELSE <<>>]
  /\ open_fds = [n \in 1..num |-> IF started THEN {1} ELSE {}]
  /\ released = [n \in 1..num |-> 0]
  /\ cancel_pending = [n \in 1..num |-> FALSE]
  /\ exit_cause = [n \in 1..num |-> "running"]
  /\ loop_err = [n \in 1..num |-> "none"]
  /\ sd_pc = "none"
  /\ sd_i = 0
  /\ freed = FALSE

\* The same with a registry for every node.
InitEnv(num, cf, queue, af, sk, started) ==
  InitAll(num, cf, queue, af, sk, started, {})

\* The same with the default Timer* options, no fault and started threads.
InitWith(num, del, queue) ==
  InitEnv(num, [n \in 1..num |-> NodeConf(NodeNames[n], del[n])], queue,
          0, {}, TRUE)

\* One node, any combination of the Delete* options, any traffic.
InitOne ==
  \E del \in [Types -> BOOLEAN], q \in Queues(Datagrams, MaxQueue) :
    InitWith(1, <<del>>, <<q>>)

\* Two nodes, each deleting nothing or everything, one datagram each.
InitNodes ==
  \E del \in [1..2 -> {DeleteNone, DeleteAll}],
     q \in [1..2 -> Queues({DgCounter, DgSet, DgGauge}, 1)] :
    InitWith(2, del, q)

\* One node with the default options, or with DeleteSets, and the datagram
\* of one end-to-end scenario.
InitScenario ==
  \E del \in {DeleteNone, DeleteOnly({"set"})},
     q \in Queues(ScenarioDatagrams, 1) :
    InitWith(1, <<del>>, <<q>>)

\* One node with Timer* series configured, which keeps or deletes idle
\* timers, and a datagram with timer lines.
InitTimer ==
  \E del \in {DeleteNone, DeleteOnly({"timer"})}, tm \in {TimerS4, TimerAll},
     q \in Queues({DgS4, DgGauge}, 1) :
    InitEnv(1, <<NodeConfTimer(NodeNames[1], del, tm)>>, <<q>>, 0, {}, TRUE)

\* One node in an environment with a fault: an allocation that fails, or a
\* host that refuses gauge or derive value lists.
InitFaults ==
  \E q \in Queues({DgGauge, DgSet, DgDerive}, 1),
     f \in {<<MaxAllocFail, {}>>, <<0, {"gauge"}>>, <<0, {"derive"}>>} :
    InitEnv(1, <<NodeConfTimer(NodeNames[1], DeleteNone, TimerAll)>>, <<q>>,
            f[1], f[2], TRUE)

\* Two nodes, one of which has no registry and gets no traffic; the other
\* gets one datagram.
InitNoTree ==
  \E nt \in 1..2 : \E q \in Queues({DgCounter, DgGauge}, 1) :
    InitAll(2, [n \in 1..2 |-> NodeConf(NodeNames[n], DeleteNone)],
            [n \in 1..2 |-> IF n = nt THEN <<>> ELSE q], 0, {}, TRUE, {nt})

Init ==
  InitOne \/ InitNodes \/ InitScenario \/ InitTimer \/ InitFaults \/ InitNoTree

-----------------------------------------------------------------------------
(* The receive thread of node n: statsd_network_thread.                    *)

\* A loop that gives the datagram up at the first line that does not parse.
AbortOnRejected(n, buf) ==
  LET rest == IF statsd_parse_line(SplitLine(buf).line).status # 0 THEN NULL
              ELSE SkipEmpty(SplitLine(buf).next)
  IN  /\ buffer' = [buffer EXCEPT ![n] = rest]
      /\ rpc' = [rpc EXCEPT ![n] = IF rest = NULL THEN "poll" ELSE "parse"]

\* Where the thread goes once the line at the head of buf is dealt with.
AfterLine(n, buf) ==
  LET rest == SkipEmpty(SplitLine(buf).next)
  IN  /\ buffer' = [buffer EXCEPT ![n] = rest]
      /\ rpc' = [rpc EXCEPT ![n] = IF rest = NULL THEN "poll" ELSE "parse"]

\* poll returns, and statsd_network_read receives one datagram into its
\* buffer and enters statsd_parse_buffer.
NetworkRead(n) ==
  /\ rpc[n] = "poll"
  /\ ~cancel_pending[n]
  /\ sockbuf[n] # <<>>
  /\ LET buf == SkipEmpty(sstrncpy(Head(sockbuf[n]), BufferSize))
     IN  /\ buffer' = [buffer EXCEPT ![n] = buf]
         /\ rpc' = [rpc EXCEPT ![n] = IF buf = NULL THEN "poll" ELSE "parse"]
  /\ sockbuf' = [sockbuf EXCEPT ![n] = Tail(@)]
  /\ hist' = [hist EXCEPT ![n] = Append(@, Head(sockbuf[n]))]
  /\ UNCHANGED <<statsd_threads_num, conf, metrics_tree, metrics_lock, call,
                 rd_pc, thread_num, iter, to_be_deleted, tbd_dangling,
                 dispatched, reads, snapshot, acct, vl_time, read_ret, faults,
                 life>>

\* statsd_parse_line on the next line of the datagram, up to the point
\* where its handler either returns an error or goes for the lock.
ParseLine(n) ==
  /\ rpc[n] = "parse"
  /\ LET c == statsd_parse_line(SplitLine(buffer[n]).line)
     IN  /\ call' = [call EXCEPT ![n] = c]
         /\ IF c.status # 0
            THEN AfterLine(n, buffer[n])
            ELSE /\ rpc' = [rpc EXCEPT ![n] = "lock"]
                 /\ UNCHANGED buffer
  /\ UNCHANGED <<statsd_threads_num, conf, metrics_tree, metrics_lock, sockbuf,
                 rd_pc, thread_num, iter, to_be_deleted, tbd_dangling,
                 dispatched, reads, snapshot, acct, hist, vl_time, read_ret,
                 faults, life>>

NewAcct == [applied |-> 0, total |-> 0, flushed |-> 0, sum |-> Zero,
            members |-> {}, pending |-> TRUE]

\* The handler takes metrics_lock and looks the entry up, inserting it when
\* it is not there.
UpdateLookup(n) ==
  /\ rpc[n] = "lock"
  /\ pthread_mutex_lock(n)
  /\ metrics_lock' = [metrics_lock EXCEPT ![n] = "recv"]
  /\ LET key == MetricKey(call[n].name, call[n].type)
     IN  /\ metrics_tree' = [metrics_tree EXCEPT ![n] =
               statsd_metric_lookup_unsafe(@, call[n].name, call[n].type)]
         /\ acct' = [acct EXCEPT ![n] =
               IF key \in DOMAIN metrics_tree[n] THEN @
               ELSE [k \in DOMAIN @ \cup {key} |->
                       IF k = key THEN NewAcct ELSE @[k]]]
  /\ rpc' = [rpc EXCEPT ![n] = "modify"]
  /\ UNCHANGED <<statsd_threads_num, conf, sockbuf, buffer, call, rd_pc,
                 thread_num, iter, to_be_deleted, tbd_dangling, dispatched,
                 reads, snapshot, hist, vl_time, read_ret, faults, life>>

\* The history of an entry after the update c has been applied to it.
Account(a, c) ==
  [a EXCEPT !.applied = @ + 1, !.total = @ + 1, !.pending = FALSE,
            !.sum = IF c.op = "set" THEN c.value ELSE DAdd(@, c.value),
            !.members = IF c.op = "setadd" THEN @ \cup {c.member} ELSE @]

\* The handler changes the entry's payload, counts the update and releases
\* metrics_lock; statsd_parse_buffer goes on to the next line.
UpdateModify(n) ==
  /\ rpc[n] = "modify"
  /\ LET key == MetricKey(call[n].name, call[n].type)
     IN  /\ metrics_tree' = [metrics_tree EXCEPT ![n] =
               IF key \in DOMAIN @
               THEN [@ EXCEPT ![key] = ApplyUpdate(@, call[n])] ELSE @]
         /\ acct' = [acct EXCEPT ![n] =
               IF key \in DOMAIN @
               THEN [@ EXCEPT ![key] = Account(@, call[n])] ELSE @]
  /\ metrics_lock' = pthread_mutex_unlock(metrics_lock, n)
  /\ AfterLine(n, buffer[n])
  /\ UNCHANGED <<statsd_threads_num, conf, sockbuf, call, rd_pc, thread_num,
                 iter, to_be_deleted, tbd_dangling, dispatched, reads,
                 snapshot, hist, vl_time, read_ret, faults, life>>

\* An allocation is about to fail.
AllocFails == alloc_fails.num < alloc_fails.limit

\* statsd_metric_lookup_unsafe returns NULL (strdup, malloc or c_avl_insert
\* fails, lines 164-191): the handler takes the lock, finds no entry,
\* cannot make one, releases the lock and returns -1.
UpdateLookupFails(n) ==
  /\ rpc[n] = "lock"
  /\ pthread_mutex_lock(n)
  /\ MetricKey(call[n].name, call[n].type) \notin DOMAIN metrics_tree[n]
  /\ AllocFails
  /\ alloc_fails' = [alloc_fails EXCEPT !.num = @ + 1]
  /\ AfterLine(n, buffer[n])
  /\ UNCHANGED <<statsd_threads_num, conf, metrics_tree, metrics_lock, sockbuf,
                 call, rd_pc, thread_num, iter, to_be_deleted, tbd_dangling,
                 dispatched, reads, snapshot, hist, acct, vl_time, read_ret,
                 sink, no_tree, life>>

\* The allocations a handler makes with the entry in its hand: the
\* histogram of a timer that has none (line 369), the tree of a set that
\* has none (line 402), the copy of the member (line 411) and its node in
\* the set's tree (line 419).
AllocsOf(metric, c) ==
  CASE c.op = "timer"  -> IF metric.latency.null THEN {"latency"} ELSE {}
    [] c.op = "setadd" ->
         (IF metric.set.null THEN {"set"} ELSE {})
         \cup {"member"}
         \cup (IF c.member \in metric.set.members THEN {} ELSE {"insert"})
    [] OTHER -> {}

\* The entry a handler leaves behind when the allocation what fails: a set
\* whose tree was created before the failure keeps the empty tree.
AfterFailedAlloc(metric, what) ==
  IF what \in {"member", "insert"} /\ metric.set.null
  THEN [metric EXCEPT !.set = [null |-> FALSE, members |-> {}]]
  ELSE metric

\* An allocation of statsd_handle_timer or statsd_handle_set fails: the
\* handler releases the lock and returns -1 (lines 370-374, 404-428).
UpdateModifyFails(n) ==
  /\ rpc[n] = "modify"
  /\ AllocFails
  /\ LET key == MetricKey(call[n].name, call[n].type)
     IN  /\ key \in DOMAIN metrics_tree[n]
         /\ \E what \in AllocsOf(metrics_tree[n][key], call[n]) :
              metrics_tree' = [metrics_tree EXCEPT ![n][key] =
                                 AfterFailedAlloc(@, what)]
         /\ acct' = [acct EXCEPT ![n][key].pending = FALSE]
  /\ alloc_fails' = [alloc_fails EXCEPT !.num = @ + 1]
  /\ metrics_lock' = ErrorReturnUnlocks(metrics_lock, n)
  /\ AfterLine(n, buffer[n])
  /\ UNCHANGED <<statsd_threads_num, conf, sockbuf, call, rd_pc, thread_num,
                 iter, to_be_deleted, tbd_dangling, dispatched, reads,
                 snapshot, hist, vl_time, read_ret, sink, no_tree, life>>

-----------------------------------------------------------------------------
(* The reader: statsd_read.                                                *)

\* The node the reader is at (thread_num counts from 0).
Cur == thread_num + 1

\* The host invokes statsd_read: its locals are initialised.
ReadBegin ==
  /\ rd_pc = "idle"
  /\ sd_pc = "none"
  /\ reads < MaxReads
  /\ reads' = reads + 1
  /\ thread_num' = 0
  /\ to_be_deleted' = <<>>
  /\ tbd_dangling' = FALSE
  /\ dispatched' = <<>>
  /\ vl_time' = <<>>
  /\ rd_pc' = "lock"
  /\ UNCHANGED <<statsd_threads_num, conf, metrics_tree, metrics_lock, sockbuf,
                 rpc, buffer, call, iter, snapshot, acct, hist, read_ret,
                 faults, life>>

\* Line 1126 and c_avl_get_iterator.
ReadLock ==
  /\ rd_pc = "lock"
  /\ Cur \notin no_tree
  /\ pthread_mutex_lock(Cur)
  /\ metrics_lock' = [metrics_lock EXCEPT ![Cur] = "read"]
  /\ iter' = SortedKeys(DOMAIN metrics_tree[Cur])
  /\ snapshot' = metrics_tree[Cur]
  /\ rd_pc' = IF DOMAIN metrics_tree[Cur] = {} THEN "remove" ELSE "walk"
  /\ UNCHANGED <<statsd_threads_num, conf, metrics_tree, sockbuf, rpc, buffer,
                 call, thread_num, to_be_deleted, tbd_dangling, dispatched,
                 reads, acct, hist, vl_time, read_ret, faults, life>>

\* Lines 1126-1133: the node's conf->metrics_tree is NULL; the lock is
\* taken and released again and statsd_read returns 0 at once, leaving the
\* nodes that follow.
ReadNoTree ==
  /\ rd_pc = "lock"
  /\ Cur \in no_tree
  /\ pthread_mutex_lock(Cur)
  /\ rd_pc' = "idle"
  /\ read_ret' = 0
  /\ UNCHANGED <<statsd_threads_num, conf, metrics_tree, metrics_lock, sockbuf,
                 rpc, buffer, call, thread_num, iter, to_be_deleted,
                 tbd_dangling, dispatched, reads, snapshot, acct, hist,
                 vl_time, faults, life>>

\* The entry the iterator returns next is marked for deletion.
WalkMarks == IdleAndDeletable(conf[Cur], metrics_tree[Cur][Head(iter)])

\* One pass of the loop of lines 1136-1157: the entry is marked, or it is
\* submitted and reset.
ReadWalk ==
  /\ rd_pc = "walk"
  /\ LET name == Head(iter)
         metric == metrics_tree[Cur][name]
     IN  IF name \notin DOMAIN metrics_tree[Cur]
         THEN UNCHANGED <<to_be_deleted, dispatched, vl_time, metrics_tree, acct>>
         ELSE IF WalkMarks
         THEN /\ to_be_deleted' = Append(to_be_deleted, name)
              /\ UNCHANGED <<dispatched, vl_time, metrics_tree, acct>>
         ELSE /\ \E derive \in DeriveCast(metric.value) :
                   LET records == statsd_metric_submit_unsafe(
                                    conf[Cur], SubSeq(name, 3, Len(name)),
                                    metric, derive)
                   IN  /\ dispatched' = dispatched \o records
                       /\ vl_time' = vl_time \o
                             SubmitTimes(metric, Len(records), cdtime)
              /\ metrics_tree' = [metrics_tree EXCEPT ![Cur][name] = ResetMetric(@)]
              /\ acct' = [acct EXCEPT ![Cur][name] =
                    [@ EXCEPT !.flushed = @ + metric.updates_num,
                              !.applied = 0, !.members = {}]]
              /\ UNCHANGED to_be_deleted
  /\ iter' = Tail(iter)
  /\ rd_pc' = IF Tail(iter) = <<>> THEN "remove" ELSE "walk"
  /\ UNCHANGED <<statsd_threads_num, conf, metrics_lock, sockbuf, rpc, buffer,
                 call, thread_num, tbd_dangling, reads, snapshot, hist,
                 read_ret, faults, life>>

\* The loop of lines 1160-1175.
ReadRemove ==
  /\ rd_pc = "remove"
  /\ metrics_tree' = [metrics_tree EXCEPT ![Cur] = RemoveMarked(@, to_be_deleted)]
  /\ acct' = [acct EXCEPT ![Cur] = RemoveMarked(@, to_be_deleted)]
  /\ rd_pc' = "unlock"
  /\ UNCHANGED <<statsd_threads_num, conf, metrics_lock, sockbuf, rpc, buffer,
                 call, thread_num, iter, to_be_deleted, tbd_dangling,
                 dispatched, reads, snapshot, hist, vl_time, read_ret, faults,
                 life>>

\* Lines 1177-1180: the lock is released, the array is freed (the pointer
\* and the count are left as they are) and the loop goes to the next node;
\* after the last node statsd_read returns.
ReadUnlock ==
  /\ rd_pc = "unlock"
  /\ metrics_lock' = pthread_mutex_unlock(metrics_lock, Cur)
  /\ to_be_deleted' \in Stale(to_be_deleted)
  /\ tbd_dangling' = (to_be_deleted # <<>>)
  /\ thread_num' = thread_num + 1
  /\ rd_pc' = IF thread_num + 1 < statsd_threads_num THEN "lock" ELSE "idle"
  /\ read_ret' = IF thread_num + 1 < statsd_threads_num THEN read_ret ELSE 0
  /\ UNCHANGED <<statsd_threads_num, conf, metrics_tree, sockbuf, rpc, buffer,
                 call, iter, dispatched, reads, snapshot, acct, hist, vl_time,
                 faults, life>>

-----------------------------------------------------------------------------

-----------------------------------------------------------------------------
(* The sockets of a receive thread, its end, and statsd_shutdown.          *)

\* A bind failure that leaves the socket open.
NetworkInitLeaksOnBind(gai, ai) ==
  LET ok == {j \in 1..Len(ai) : ai[j] = "ok"}
  IN  IF gai # 0 THEN [status |-> gai, fds |-> <<>>, open |-> {}]
      ELSE [status |-> IF ok = {} THEN 2 ELSE 0,
            fds    |-> IF ok = {} THEN <<>>
                       ELSE SelectSeq([j \in 1..Len(ai) |-> j],
                                      LAMBDA j : j \in ok),
            open   |-> {j \in 1..Len(ai) : ai[j] \in {"ok", "bind"}}]

\* statsd_network_init: gai is the status of getaddrinfo, ai[j] what
\* happens to the j-th address: "socket" (socket fails), "bind" (bind fails),
\* "realloc" (realloc fails) or "ok". The result is the status, the array
\* handed back and the descriptors left open (j is the descriptor of the
\* j-th address).
statsd_network_init(gai, ai) ==
  LET opened == {j \in 1..Len(ai) : ai[j] # "socket"}
      closed == {j \in 1..Len(ai) : ai[j] \in {"bind", "realloc"}}
      ok     == {j \in 1..Len(ai) : ai[j] = "ok"}
  IN  IF gai # 0 THEN [status |-> gai, fds |-> <<>>, open |-> {}]
      ELSE [status |-> IF ok = {} THEN 2 ELSE 0,
            fds    |-> IF ok = {} THEN <<>>
                       ELSE SelectSeq([j \in 1..Len(ai) |-> j],
                                      LAMBDA j : j \in ok),
            open   |-> opened \ closed]

\* Lines 726-739: the thread opens its sockets with cancellation disabled;
\* if that fails it ends by pthread_exit, else it pushes the cleanup
\* handler, enables cancellation and enters the loop.
NetworkInit(n) ==
  /\ rpc[n] = "init"
  /\ \E gai \in {0, -1}, ai \in UNION {[1..k -> {"socket", "bind", "realloc", "ok"}] :
                                        k \in 1..MaxAddr} :
       LET r == statsd_network_init(gai, ai)
       IN  /\ fds' = [fds EXCEPT ![n] = IF r.status = 0 THEN r.fds ELSE @]
           /\ open_fds' = [open_fds EXCEPT ![n] = r.open]
           /\ rpc' = [rpc EXCEPT ![n] = IF r.status = 0 THEN "poll" ELSE "exited"]
           /\ exit_cause' = [exit_cause EXCEPT ![n] =
                               IF r.status = 0 THEN @ ELSE "init failed"]
  /\ UNCHANGED <<statsd_threads_num, conf, metrics_tree, metrics_lock, sockbuf,
                 buffer, call, rd_pc, thread_num, iter, to_be_deleted,
                 tbd_dangling, dispatched, reads, snapshot, hist, acct,
                 vl_time, read_ret, faults, loop_err, released, cancel_pending, sd_pc,
                 sd_i, freed>>

\* A release that closes the first descriptor only.
ReleaseFirstOnly(array, open) == open \ {array[1]}

\* statsd_network_release: the descriptors still open once every
\* descriptor of the array has been closed (nothing when fds.fds is NULL).
statsd_network_release(array, open) ==
  IF array = <<>> THEN open
  ELSE open \ {array[i] : i \in 1..Len(array)}

\* The thread of node n ends with the cleanup handler pushed at line 737:
\* the handler runs, closes the sockets and frees the array.
ThreadEnds(n, cause) ==
  /\ open_fds' = [open_fds EXCEPT ![n] = statsd_network_release(fds[n], @)]
  /\ fds' = [fds EXCEPT ![n] = <<>>]
  /\ released' = [released EXCEPT ![n] = @ + 1]
  /\ rpc' = [rpc EXCEPT ![n] = "exited"]
  /\ exit_cause' = [exit_cause EXCEPT ![n] = cause]

\* Cancellation is acted on everywhere, while a datagram is parsed too.
CancelAlwaysEnabled(n) == rpc[n] \in {"poll", "parse", "lock", "modify"}

\* pthread_setcancelstate: cancellation is disabled during
\* statsd_network_init and from line 540 to line 542, and the thread
\* reaches a cancellation point (poll, recv, pthread_testcancel) only
\* between two datagrams.
CancelEnabled(n) == rpc[n] = "poll"

\* The thread acts on a pending cancellation request at the cancellation
\* point at: in poll, in the recv after poll has reported a datagram, or in
\* pthread_testcancel after the sockets have been served.
Cancel(n) ==
  /\ cancel_pending[n]
  /\ CancelEnabled(n)
  /\ \E at \in {"poll", "recv", "testcancel"} :
       /\ at = "recv" => sockbuf[n] # <<>>
       /\ at = "testcancel" => hist[n] # <<>>
       /\ ThreadEnds(n, at)
  /\ cancel_pending' = [cancel_pending EXCEPT ![n] = FALSE]
  /\ UNCHANGED <<statsd_threads_num, conf, metrics_tree, metrics_lock, sockbuf,
                 buffer, call, rd_pc, thread_num, iter, to_be_deleted,
                 tbd_dangling, dispatched, reads, snapshot, hist, acct,
                 vl_time, read_ret, faults, loop_err, sd_pc, sd_i, freed>>

\* The values of errno after a failed poll, and after a failed recv.
PollErrnos == {"EAGAIN", "EINTR", "EBADF"}
RecvErrnos == {"EAGAIN", "EWOULDBLOCK", "ECONNREFUSED"}

\* Lines 745-759: after a failed poll the loop is left by break unless
\* errno is EAGAIN.
PollBreaks(errno) == errno # "EAGAIN"

\* poll fails with EINTR or with another error that is not EAGAIN: the
\* loop is left by break and pthread_cleanup_pop (1) runs the handler.
PollFails(n) ==
  /\ rpc[n] = "poll"
  /\ \E errno \in PollErrnos : PollBreaks(errno) /\ ThreadEnds(n, errno)
  /\ UNCHANGED <<statsd_threads_num, conf, metrics_tree, metrics_lock, sockbuf,
                 buffer, call, rd_pc, thread_num, iter, to_be_deleted,
                 tbd_dangling, dispatched, reads, snapshot, hist, acct,
                 vl_time, read_ret, faults, loop_err, cancel_pending, sd_pc, sd_i,
                 freed>>

\* poll fails with EAGAIN: the loop goes round (lines 748-749).
PollAgain(n) ==
  /\ rpc[n] = "poll"
  /\ \E errno \in PollErrnos :
       /\ ~PollBreaks(errno)
       /\ loop_err' = [loop_err EXCEPT ![n] = errno]
  /\ UNCHANGED <<statsd_threads_num, conf, metrics_tree, metrics_lock, sockbuf,
                 rpc, buffer, call, rd_pc, thread_num, iter, to_be_deleted,
                 tbd_dangling, dispatched, reads, snapshot, hist, acct,
                 vl_time, read_ret, faults, fds, open_fds, released,
                 cancel_pending, exit_cause, sd_pc, sd_i, freed>>

\* A recv that drops the thread out of its loop.
RecvErrorEnds(errno) == IF errno = "ECONNREFUSED" THEN "exited" ELSE "poll"

\* Lines 522-533: recv fails; statsd_network_read returns, silently for
\* EAGAIN and EWOULDBLOCK and after ERROR () for anything else, and the
\* thread goes on with the next socket and the next poll.
RecvReturns(errno) == "poll"

\* poll has reported a socket as ready and recv on it fails: nothing is
\* parsed.
RecvFails(n) ==
  /\ rpc[n] = "poll"
  /\ ~cancel_pending[n]
  /\ \E errno \in RecvErrnos :
       /\ rpc' = [rpc EXCEPT ![n] = RecvReturns(errno)]
       /\ loop_err' = [loop_err EXCEPT ![n] = errno]
  /\ UNCHANGED <<statsd_threads_num, conf, metrics_tree, metrics_lock, sockbuf,
                 buffer, call, rd_pc, thread_num, iter, to_be_deleted,
                 tbd_dangling, dispatched, reads, snapshot, hist, acct,
                 vl_time, read_ret, faults, fds, open_fds, released,
                 cancel_pending, exit_cause, sd_pc, sd_i, freed>>

\* The host calls statsd_shutdown (no statsd_read runs then).
ShutdownBegin ==
  /\ sd_pc = "none"
  /\ rd_pc = "idle"
  /\ sd_i' = 0
  /\ sd_pc' = IF statsd_threads_num > 0 THEN "cancel" ELSE "free"
  /\ UNCHANGED <<statsd_threads_num, conf, metrics_tree, metrics_lock, sockbuf,
                 rpc, buffer, call, rd_pc, thread_num, iter, to_be_deleted,
                 tbd_dangling, dispatched, reads, snapshot, hist, acct,
                 vl_time, read_ret, faults, loop_err, fds, open_fds, released,
                 cancel_pending, exit_cause, freed>>

\* Line 1193: pthread_cancel of the thread of node i (no effect on a
\* thread that has ended).
ShutdownCancel ==
  /\ sd_pc = "cancel"
  /\ cancel_pending' = [cancel_pending EXCEPT ![sd_i + 1] = rpc[sd_i + 1] # "exited"]
  /\ sd_pc' = "join"
  /\ UNCHANGED <<statsd_threads_num, conf, metrics_tree, metrics_lock, sockbuf,
                 rpc, buffer, call, rd_pc, thread_num, iter, to_be_deleted,
                 tbd_dangling, dispatched, reads, snapshot, hist, acct,
                 vl_time, read_ret, faults, loop_err, fds, open_fds, released,
                 exit_cause, sd_i, freed>>

\* A join that returns while the thread is still running.
JoinWithoutWaiting(n) == TRUE

\* pthread_join returns only when the thread has ended.
pthread_join(n) == rpc[n] = "exited"

\* Line 1194 and the loop of line 1192.
ShutdownJoin ==
  /\ sd_pc = "join"
  /\ pthread_join(sd_i + 1)
  /\ sd_i' = sd_i + 1
  /\ sd_pc' = IF sd_i + 1 < statsd_threads_num THEN "cancel" ELSE "free"
  /\ UNCHANGED <<statsd_threads_num, conf, metrics_tree, metrics_lock, sockbuf,
                 rpc, buffer, call, rd_pc, thread_num, iter, to_be_deleted,
                 tbd_dangling, dispatched, reads, snapshot, hist, acct,
                 vl_time, read_ret, faults, loop_err, fds, open_fds, released,
                 cancel_pending, exit_cause, freed>>

\* statsd_threads_free: every node's registry, metrics and config strings
\* are freed, and statsd_threads_num is set to 0.
ShutdownFree ==
  /\ sd_pc = "free"
  /\ freed' = TRUE
  /\ statsd_threads_num' = 0
  /\ sd_pc' = "done"
  /\ UNCHANGED <<conf, metrics_tree, metrics_lock, sockbuf, rpc, buffer, call,
                 rd_pc, thread_num, iter, to_be_deleted, tbd_dangling,
                 dispatched, reads, snapshot, hist, acct, vl_time, read_ret,
                 faults, loop_err, fds, open_fds, released, cancel_pending, exit_cause,
                 sd_i>>

-----------------------------------------------------------------------------

\* The receive threads statsd_init has created.
Threads == DOMAIN rpc

Next ==
  \/ \E n \in Threads : NetworkRead(n)
  \/ \E n \in Threads : ParseLine(n)
  \/ \E n \in Threads : UpdateLookup(n)
  \/ \E n \in Threads : UpdateLookupFails(n)
  \/ \E n \in Threads : UpdateModify(n)
  \/ \E n \in Threads : UpdateModifyFails(n)
  \/ ReadBegin
  \/ ReadLock
  \/ ReadNoTree
  \/ ReadWalk
  \/ ReadRemove
  \/ ReadUnlock

Spec == Init /\ [][Next]_vars

\* The plugin from statsd_init to statsd_shutdown: one or two nodes whose
\* threads have just been created, a datagram on its way to each.
InitLife ==
  \E num \in 1..2 :
    \E q \in [1..num -> Queues({DgCounter, DgSet}, 1)] :
      InitEnv(num, [n \in 1..num |-> NodeConf(NodeNames[n], DeleteNone)], q,
              0, {}, FALSE)

NextLife ==
  \/ \E n \in Threads : NetworkRead(n)
  \/ \E n \in Threads : ParseLine(n)
  \/ \E n \in Threads : UpdateLookup(n)
  \/ \E n \in Threads : UpdateModify(n)
  \/ ReadBegin
  \/ ReadLock
  \/ ReadWalk
  \/ ReadRemove
  \/ ReadUnlock
  \/ \E n \in Threads : NetworkInit(n)
  \/ \E n \in Threads : Cancel(n)
  \/ \E n \in Threads : PollFails(n)
  \/ ShutdownBegin
  \/ ShutdownCancel
  \/ ShutdownJoin
  \/ ShutdownFree

SpecLife == InitLife /\ [][NextLife]_vars

\* One node whose receive loop meets errors of poll and recv while up to
\* two datagrams arrive and statsd_read runs.
InitLoop ==
  \E del \in {DeleteNone, DeleteAll}, q \in Queues({DgCounter, DgSet}, 2) :
    InitWith(1, <<del>>, <<q>>)

NextLoop ==
  \/ \E n \in Threads : NetworkRead(n)
  \/ \E n \in Threads : ParseLine(n)
  \/ \E n \in Threads : UpdateLookup(n)
  \/ \E n \in Threads : UpdateModify(n)
  \/ ReadBegin
  \/ ReadLock
  \/ ReadWalk
  \/ ReadRemove
  \/ ReadUnlock
  \/ \E n \in Threads : PollFails(n)
  \/ \E n \in Threads : PollAgain(n)
  \/ \E n \in Threads : RecvFails(n)

SpecLoop == InitLoop /\ [][NextLoop]_vars

\* One node from statsd_init to statsd_shutdown in an environment where
\* an allocation may fail or where the node has no registry (and then no
\* traffic).
InitLock ==
  \E q \in Queues({DgSet, DgGauge}, 1), af \in {0, MaxAllocFail},
     nt \in {{}, {1}} :
    InitAll(1, <<NodeConf(NodeNames[1], DeleteNone)>>,
            <<IF nt = {} THEN q ELSE <<>> >>, af, {}, FALSE, nt)

NextLock ==
  \/ NextLife
  \/ \E n \in Threads : UpdateLookupFails(n)
  \/ \E n \in Threads : UpdateModifyFails(n)
  \/ ReadNoTree

\* Whoever holds the lock is scheduled: a handler that is past its lookup
\* runs on to its unlock, statsd_read runs on to its unlock once it has
\* the lock, and it takes the lock when the lock stays free.
SpecLock ==
  /\ InitLock
  /\ [][NextLock]_vars
  /\ WF_vars(UpdateModify(1))
  /\ WF_vars(ReadLock)
  /\ WF_vars(ReadNoTree)
  /\ WF_vars(ReadWalk)
  /\ WF_vars(ReadRemove)
  /\ WF_vars(ReadUnlock)

-----------------------------------------------------------------------------
(* Properties.                                                             *)

\* The receive thread of node n is between lock and unlock of metrics_lock.
InUpdate(n) == rpc[n] = "modify"

\* The reader is between lock and unlock of node n's metrics_lock.
InFlush(n) == rd_pc \in {"walk", "remove", "unlock"} /\ Cur = n

\* C1: registry access is mutually exclusive per node: the receive thread
\* of a node is never inside the lookup-and-modify step of an update while
\* statsd_read walks, resets or deletes entries of that node, and whoever
\* is inside holds the node's metrics_lock.
C1_MutualExclusion ==
  \A n \in Nodes :
    /\ ~(InUpdate(n) /\ InFlush(n))
    /\ InUpdate(n) => metrics_lock[n] = "recv"
    /\ InFlush(n) => metrics_lock[n] = "read"

\* An update of node n waits for the lock while the flush of n holds it
\* in the middle of its walk.
C1_Witness ==
  \E n \in Nodes :
    /\ InFlush(n) /\ rd_pc = "walk" /\ Len(iter) < Cardinality(DOMAIN snapshot)
    /\ rpc[n] = "lock"

\* C2: an entry present when a node is flushed is gone after the flush
\* exactly if its updates_num was 0 and the Delete* flag of its type is set.
C2_DeleteOnIdle ==
  rd_pc = "unlock" =>
    \A k \in DOMAIN snapshot :
      (k \notin DOMAIN metrics_tree[Cur]) <=> IdleAndDeletable(conf[Cur], snapshot[k])

\* C3: updates_num of every entry is the number of well-formed updates
\* applied to it since the last flush that emitted it, or since its
\* creation; an entry just emitted has updates_num 0.
C3_UpdatesNum ==
  \A n \in Nodes :
    /\ DOMAIN acct[n] = DOMAIN metrics_tree[n]
    /\ \A k \in DOMAIN metrics_tree[n] :
         metrics_tree[n][k].updates_num = acct[n][k].applied

\* An entry has been emitted by a flush, updated twice since, and is
\* being flushed again; another was updated by an absolute gauge line.
C3_Witness ==
  \E n \in Nodes :
    /\ \E k \in DOMAIN metrics_tree[n] :
         /\ acct[n][k].flushed > 0
         /\ acct[n][k].applied = 2
         /\ metrics_tree[n][k].updates_num = 2
    /\ \E k \in DOMAIN metrics_tree[n] :
         metrics_tree[n][k].type = "gauge" /\ acct[n][k].total > 0

\* No Delete* flag is set on any node.
NoDeleteFlag == \A n \in Nodes, t \in Types : ~DeleteFlag(conf[n], t)

\* The name of a registry key: the key without its two-byte prefix.
NameOf(k) == SubSeq(k, 3, Len(k))

\* The flush of node n has gone past the entry k of its snapshot.
Walked(n, k) == InFlush(n) /\ k \in DOMAIN snapshot /\ \A i \in 1..Len(iter) : iter[i] # k

\* The records of value type t dispatched by the current statsd_read under
\* the name of entry k of node n.
RecordsOf(n, k, t) ==
  {i \in 1..Len(dispatched) :
     /\ dispatched[i].plugin_instance = conf[n].node_name
     /\ dispatched[i].type = t
     /\ dispatched[i].type_instance = NameOf(k)}

\* C4: with no Delete* flag set, every applied update is accounted for by
\* exactly one flush or is still pending (the updates_num seen by the
\* flushes so far plus the current updates_num is the number of updates
\* applied), a counter's value is the sum of all deltas applied, and that
\* sum is what a flush emits for it.
C4_NoUpdateLost ==
  NoDeleteFlag =>
    \A n \in Nodes : \A k \in DOMAIN metrics_tree[n] :
      LET m == metrics_tree[n][k]
      IN  /\ acct[n][k].flushed + m.updates_num = acct[n][k].total
          /\ m.type = "counter" => m.value = acct[n][k].sum
          /\ (m.type = "counter" /\ Walked(n, k)) =>
               \E i \in RecordsOf(n, k, "gauge") :
                 dispatched[i].value = acct[n][k].sum

\* A counter updated before and after one flush is emitted by the next.
C4_Witness ==
  /\ NoDeleteFlag
  /\ \E n \in Nodes : \E k \in DOMAIN metrics_tree[n] :
       /\ metrics_tree[n][k].type = "counter"
       /\ Walked(n, k)
       /\ acct[n][k].total = 4
       /\ acct[n][k].flushed = 4
       /\ snapshot[k].updates_num = 2

\* C5: nodes do not interfere: the registry of a node is changed only by
\* that node's receive thread, which removes nothing, and by the flush of
\* that node, which removes exactly the node's own idle entries of a type
\* whose Delete* flag is set.
C5_NodesIndependent ==
  [][\A n \in Nodes :
       metrics_tree[n]' # metrics_tree[n] =>
         \/ /\ rpc[n] \in {"lock", "modify"}
            /\ rpc'[n] # rpc[n]
            /\ DOMAIN metrics_tree[n] \subseteq DOMAIN metrics_tree'[n]
         \/ /\ InFlush(n)
            /\ DOMAIN metrics_tree[n] \ DOMAIN metrics_tree'[n]
                 = IF rd_pc = "remove"
                   THEN {k \in DOMAIN snapshot : IdleAndDeletable(conf[n], snapshot[k])}
                   ELSE {}]_vars

\* C6: the value dispatched for a Set is the number of distinct members
\* submitted since the previous flush that emitted it.
C6_SetCardinality ==
  [][(/\ rd_pc = "walk"
      /\ iter' # iter
      /\ Head(iter) \in DOMAIN metrics_tree[Cur]
      /\ metrics_tree[Cur][Head(iter)].type = "set"
      /\ ~WalkMarks)
     => dispatched' = Append(dispatched,
          Record(conf[Cur], "objects", NameOf(Head(iter)),
                 Fin(Cardinality(acct[Cur][Head(iter)].members), 1)))]_vars

\* A set that got three updates with two distinct members in one interval
\* has been emitted as 2.
C6_Witness ==
  \E n \in Nodes : \E k \in DOMAIN metrics_tree[n] :
    /\ metrics_tree[n][k].type = "set"
    /\ Walked(n, k)
    /\ snapshot[k].updates_num = 3
    /\ \E i \in RecordsOf(n, k, "objects") : dispatched[i].value = Fin(2, 1)

\* Scenario S3 at its second flush: one node is configured, and entry k of
\* it is a Set that has had no update since a flush emitted it.
IdleSet(n, k) ==
  /\ statsd_threads_num = 1
  /\ InFlush(n)
  /\ k \in DOMAIN snapshot
  /\ snapshot[k].type = "set"
  /\ snapshot[k].updates_num = 0

\* C7 as stated: once the walk of the flush is over, an objects sample 0.0
\* has been dispatched for the idle Set, whether or not DeleteSets removes
\* it.
C7_IdleSetEmittedThenRemoved ==
  \A n \in Nodes : \A k \in DOMAIN snapshot :
    (IdleSet(n, k) /\ rd_pc \in {"remove", "unlock"}) =>
      \E i \in RecordsOf(n, k, "objects") : dispatched[i].value = Zero

\* C7 amended: for the idle Set the flush dispatches exactly one objects
\* sample 0.0 if DeleteSets is false; if DeleteSets is true it dispatches
\* nothing for the Set and removes it.
C7_IdleSet ==
  \A n \in Nodes : \A k \in DOMAIN snapshot :
    (IdleSet(n, k) /\ rd_pc \in {"remove", "unlock"}) =>
      IF conf[n].delete_sets
      THEN /\ RecordsOf(n, k, "objects") = {}
           /\ rd_pc = "unlock" => k \notin DOMAIN metrics_tree[n]
      ELSE /\ Cardinality(RecordsOf(n, k, "objects")) = 1
           /\ \A i \in RecordsOf(n, k, "objects") : dispatched[i].value = Zero

\* Scenario S3 with DeleteSets: the second flush has removed the idle set.
C7_Witness ==
  \E n \in Nodes : \E k \in DOMAIN snapshot :
    /\ hist[n] = <<DgS3>>
    /\ IdleSet(n, k)
    /\ conf[n].delete_sets
    /\ rd_pc = "unlock"
    /\ k \notin DOMAIN metrics_tree[n]

\* The line the receive thread of node n is at (n is not polling).
CurLine(n) == SplitLine(buffer[n]).line

\* The receive thread of node n takes a ParseLine step.
ParseStep(n) ==
  rpc[n] = "parse" /\ (rpc'[n] # "parse" \/ buffer'[n] # buffer[n])

\* The receive thread of node n takes an UpdateModify step.
ModifyStep(n) == rpc[n] = "modify" /\ rpc'[n] # "modify"

\* A line name:value|type without a third field.
PlainLine(f, type) ==
  f.sep # 0 /\ f.colon # 0 /\ f.type = type /\ f.extra = NULL

\* What a gauge line does: a parseable gauge line goes on to the update,
\* and the update adds the parsed value to the old one if the text begins
\* with '+' or '-', and stores the parsed value otherwise.
GaugeStep(n) ==
  LET f      == LineFields(CurLine(n))
      key    == MetricKey(f.name, "gauge")
      parsed == statsd_parse_value(f.value)
  IN  /\ (ParseStep(n) /\ PlainLine(f, <<"g">>) /\ parsed.status = 0)
           => rpc'[n] = "lock"
      /\ (ModifyStep(n) /\ PlainLine(f, <<"g">>)) =>
           /\ parsed.status = 0
           /\ metrics_tree'[n][key].value =
                IF f.value[1] \in {"+", "-"}
                THEN DAdd(metrics_tree[n][key].value, parsed.value)
                ELSE parsed.value

TempKey == <<"g", ":", "t", "e", "m", "p">>

\* Scenario S2: after 'temp:72|g', 'temp:+3|g', 'temp:-5|g' the gauge is
\* 70, and a flush that follows dispatches one gauge sample 70.0.
GaugeScenario ==
  \A n \in Nodes :
    (hist[n] = <<DgS2>> /\ rpc[n] = "poll") =>
      /\ TempKey \in DOMAIN metrics_tree[n]
      /\ metrics_tree[n][TempKey].value = Fin(70, 1)
      /\ Walked(n, TempKey) =>
           /\ Cardinality(RecordsOf(n, TempKey, "gauge")) = 1
           /\ \A i \in RecordsOf(n, TempKey, "gauge") :
                dispatched[i].value = Fin(70, 1)

\* C8: a gauge line whose value begins with '+' or '-' adds the parsed
\* value to the gauge (a new gauge starts from 0), any other gauge line
\* assigns it; scenario S2 ends with value 70 and one gauge sample 70.0.
C8_Gauge == [][\A n \in Nodes : GaugeStep(n)]_vars /\ []GaugeScenario

\* Scenario S2 has been applied in full and then flushed.
C8_Witness ==
  \E n \in Nodes :
    /\ hist[n] = <<DgS2>>
    /\ rpc[n] = "poll"
    /\ Walked(n, TempKey)
    /\ snapshot[TempKey].updates_num = 3
    /\ \E i \in RecordsOf(n, TempKey, "gauge") : dispatched[i].value = Fin(70, 1)

\* A sample rate the plugin accepts: finite and in (0, 1].
RateInRange(r) ==
  r.status = 0 /\ isfinite(r.value) /\ DGt(r.value, Zero) /\ DLeq(r.value, Fin(1, 1))

\* What a counter line n:v|c or n:v|c|@r with a parseable v does: without
\* r the delta is v, with r in (0, 1] it is v/r, and with any other r the
\* line is dropped with the registry as it was; the update adds the delta
\* to the counter and counts one update.
CounterStep(n) ==
  LET f     == LineFields(CurLine(n))
      key   == MetricKey(f.name, "counter")
      v     == statsd_parse_value(f.value)
      rated == f.extra # NULL /\ f.extra # <<>> /\ f.extra[1] = "@"
      r     == statsd_parse_value(Tail(f.extra))
      isC   == f.sep # 0 /\ f.colon # 0 /\ f.type = <<"c">> /\ v.status = 0
  IN  /\ (ParseStep(n) /\ isC /\ f.extra = NULL) =>
           /\ rpc'[n] = "lock"
           /\ call'[n].value = v.value
      /\ (ParseStep(n) /\ isC /\ rated /\ RateInRange(r)) =>
           /\ rpc'[n] = "lock"
           /\ call'[n].value = DDiv(v.value, r.value)
      /\ (ParseStep(n) /\ isC /\ rated /\ ~RateInRange(r)) =>
           /\ rpc'[n] # "lock"
           /\ call'[n].status = -1
           /\ metrics_tree' = metrics_tree
      /\ (ModifyStep(n) /\ isC) =>
           /\ call[n].type = "counter"
           /\ call[n].name = f.name
           /\ metrics_tree'[n][key].value =
                DAdd(metrics_tree[n][key].value, call[n].value)
           /\ metrics_tree'[n][key].updates_num =
                metrics_tree[n][key].updates_num + 1

ViewsKey == <<"c", ":", "p", "a", "g", "e", ".", "v", "i", "e", "w", "s">>

\* Scenario S1: 'page.views:1|c' and 'page.views:1|c|@0.1' give 11, and
\* the malformed rates of DgBad leave counter a without any entry.
CounterScenario ==
  \A n \in Nodes :
    /\ (hist[n] = <<DgS1>> /\ rpc[n] = "poll") =>
         /\ ViewsKey \in DOMAIN metrics_tree[n]
         /\ metrics_tree[n][ViewsKey].value = Fin(11, 1)
    /\ hist[n] = <<DgBad>> => <<"c", ":", "a">> \notin DOMAIN metrics_tree[n]

\* C9: the delta of a counter line is v without a rate and v/r for a rate
\* r in (0, 1]; a rate that does not parse, is not finite, is <= 0 or is
\* > 1 rejects the line, which creates and changes nothing; scenario S1
\* ends with value 11.
C9_Counter == [][\A n \in Nodes : CounterStep(n)]_vars /\ []CounterScenario

\* Scenario S1 has been applied in full.
C9_Witness ==
  \E n \in Nodes :
    /\ hist[n] = <<DgS1>>
    /\ rpc[n] = "poll"
    /\ metrics_tree[n][ViewsKey].value = Fin(11, 1)
    /\ metrics_tree[n][ViewsKey].updates_num = 2

OkKey == <<"c", ":", "o", "k">>

EmptyNameKey == <<"c", ":">>

\* C10 as stated: the datagram of scenario S5 leaves nothing but the
\* counter 'ok' with value 1 and one update.
C10_OnlyOk ==
  \A n \in Nodes :
    (hist[n] = <<DgS5>> /\ rpc[n] = "poll") =>
      /\ DOMAIN metrics_tree[n] = {OkKey}
      /\ metrics_tree[n][OkKey].value = Fin(1, 1)
      /\ acct[n][OkKey].total = 1

\* C10 amended: of the datagram of scenario S5 only 'broken|c' is
\* rejected; ':5|c' is applied to the counter with the empty name, so the
\* datagram leaves that counter with value 5 and one update and the
\* counter 'ok' with value 1 and one update, and nothing else.
C10_EmptyNameAccepted ==
  \A n \in Nodes :
    hist[n] = <<DgS5>> =>
      /\ DOMAIN metrics_tree[n] \subseteq {EmptyNameKey, OkKey}
      /\ rpc[n] = "poll" =>
           /\ DOMAIN metrics_tree[n] = {EmptyNameKey, OkKey}
           /\ metrics_tree[n][EmptyNameKey].value = Fin(5, 1)
           /\ acct[n][EmptyNameKey].total = 1
           /\ metrics_tree[n][OkKey].value = Fin(1, 1)
           /\ acct[n][OkKey].total = 1
           /\ \A k \in {EmptyNameKey, OkKey} :
                metrics_tree[n][k].updates_num + acct[n][k].flushed = 1

\* Scenario S5 has been applied in full, before any flush of its entries.
C10_Witness ==
  \E n \in Nodes :
    /\ hist[n] = <<DgS5>>
    /\ rpc[n] = "poll"
    /\ metrics_tree[n][EmptyNameKey].updates_num = 1
    /\ metrics_tree[n][OkKey].updates_num = 1

\* The lines of a datagram that statsd_parse_line accepts, in order.
RECURSIVE AcceptedLines(_)
AcceptedLines(buf) ==
  IF buf = NULL THEN <<>>
  ELSE LET sl == SplitLine(buf)
       IN  (IF sl.line # <<>> /\ statsd_parse_line(sl.line).status = 0
            THEN <<sl.line>> ELSE <<>>) \o AcceptedLines(sl.next)

\* The accepted lines of a sequence of datagrams.
RECURSIVE AcceptedOf(_)
AcceptedOf(dgs) ==
  IF dgs = <<>> THEN <<>>
  ELSE AcceptedLines(Head(dgs)) \o AcceptedOf(Tail(dgs))

\* The registry that results from tree when each of lines is applied.
RECURSIVE RegistryAfter(_, _)
RegistryAfter(tree, lines) ==
  IF lines = <<>> THEN tree
  ELSE LET c   == statsd_parse_line(Head(lines))
           key == MetricKey(c.name, c.type)
           t   == statsd_metric_lookup_unsafe(tree, c.name, c.type)
       IN  RegistryAfter([t EXCEPT ![key] = ApplyUpdate(@, c)], Tail(lines))

\* No flush and no allocation failure has happened yet.
Undisturbed == reads = 0 /\ alloc_fails.num = 0

\* The step in which the receive thread of node n rejects a line leaves
\* every registry as it was and goes on to the next non-empty line of the
\* datagram, if there is one.
RejectStep(n) ==
  (ParseStep(n) /\ statsd_parse_line(CurLine(n)).status # 0) =>
    /\ metrics_tree' = metrics_tree
    /\ buffer'[n] = SkipEmpty(SplitLine(buffer[n]).next)
    /\ rpc'[n] = IF buffer'[n] = NULL THEN "poll" ELSE "parse"

\* Once the datagrams received so far are dealt with, the registry is that
\* of the same datagrams with the rejected lines removed.
RejectedLinesRemoved ==
  \A n \in Nodes :
    (rpc[n] = "poll" /\ Undisturbed) =>
      metrics_tree[n] = RegistryAfter(<<>>, AcceptedOf(hist[n]))

\* C11: a line that statsd_parse_line rejects changes nothing in the
\* registry and does not end the datagram: the lines before and after it
\* are applied, and the registry after a datagram is the registry of the
\* datagram without its rejected lines.
C11_MalformedLines == [][\A n \in Nodes : RejectStep(n)]_vars /\ []RejectedLinesRemoved

\* The datagram of malformed sample rates has been dealt with: all of its
\* lines but the last were rejected, and the last was applied.
C11_Witness ==
  \E n \in Nodes :
    /\ hist[n] = <<DgBad>>
    /\ rpc[n] = "poll"
    /\ Undisturbed
    /\ Len(AcceptedLines(DgBad)) = 1
    /\ DOMAIN metrics_tree[n] = {<<"c", ":", "b">>}
    /\ metrics_tree[n][<<"c", ":", "b">>].value = Fin(1, 1)

\* Every entry is filed under the key of its own type.
KeyedByType ==
  \A n \in Nodes : \A k \in DOMAIN metrics_tree[n] :
    /\ Len(k) >= 2
    /\ k[1] = KeyChar(metrics_tree[n][k].type)
    /\ k[2] = ":"

\* No step changes the type of an entry; a step of an update of node n
\* changes no entry but the one of the update's own type and name, and an
\* update that succeeds leaves an entry of its type under that key.
TypeStep(n) ==
  LET key == MetricKey(call[n].name, call[n].type)
  IN  /\ \A k \in DOMAIN metrics_tree[n] \cap DOMAIN metrics_tree'[n] :
           /\ metrics_tree'[n][k].type = metrics_tree[n][k].type
           /\ (rpc[n] \in {"lock", "modify"} /\ rpc'[n] # rpc[n] /\ k # key)
                => metrics_tree'[n][k] = metrics_tree[n][k]
      /\ (ModifyStep(n) /\ alloc_fails' = alloc_fails) =>
           /\ key \in DOMAIN metrics_tree'[n]
           /\ metrics_tree'[n][key].type = call[n].type
           /\ metrics_tree'[n][key].updates_num > 0

\* C12: the registry is keyed by (type, name) and an entry's type never
\* changes: updates of different types to one name keep separate entries,
\* and an update changes no entry of another type.
C12_TypeFixed == [][\A n \in Nodes : TypeStep(n)]_vars /\ []KeyedByType

\* A counter, a gauge and a timer, all named 'a', are in the registry of
\* one node together, each with its own payload.
C12_Witness ==
  \E n \in Nodes :
    /\ {<<"c", ":", "a">>, <<"g", ":", "a">>, <<"t", ":", "a">>}
         \subseteq DOMAIN metrics_tree[n]
    /\ metrics_tree[n][<<"c", ":", "a">>].value = Fin(3, 1)
    /\ metrics_tree[n][<<"g", ":", "a">>].value = Fin(8, 1)
    /\ metrics_tree[n][<<"t", ":", "a">>].latency.num = 1
    /\ metrics_tree[n][<<"c", ":", "a">>].type = "counter"
    /\ metrics_tree[n][<<"g", ":", "a">>].type = "gauge"

\* The reader takes the step that emits the entry of type type which its
\* iterator returns next.
EmitStep(type) ==
  /\ rd_pc = "walk"
  /\ iter' # iter
  /\ Head(iter) \in DOMAIN metrics_tree[Cur]
  /\ metrics_tree[Cur][Head(iter)].type = type
  /\ ~WalkMarks

\* The value lists that step dispatches.
NewRecords == SubSeq(dispatched', Len(dispatched) + 1, Len(dispatched'))

\* The number of series configured for the timers of a node.
SeriesNum(c) ==
  1 + (IF c.timer_lower THEN 1 ELSE 0) + (IF c.timer_upper THEN 1 ELSE 0)
    + (IF c.timer_sum THEN 1 ELSE 0) + Len(c.timer_percentile)
    + (IF c.timer_count THEN 1 ELSE 0)

\* C13: a Timer that is flushed with updates_num = 0 and is not deleted
\* gets one value list per enabled series; each of the latency series
\* (average, lower, upper, sum, percentiles) has the value NaN, and the
\* count series, the only one of type gauge and the last, has the value 0.
C13_IdleTimer ==
  [][(EmitStep("timer") /\ metrics_tree[Cur][Head(iter)].updates_num = 0) =>
       LET c == conf[Cur]
           new == NewRecords
       IN  /\ Len(new) = SeriesNum(c)
           /\ \A i \in 1..Len(new) :
                IF c.timer_count /\ i = Len(new)
                THEN new[i].type = "gauge" /\ new[i].value = Zero
                ELSE new[i].type = "latency" /\ new[i].value = NaN]_vars

\* An idle timer of a node with every series enabled has been flushed: the
\* count is 0 and the 90th percentile is NaN.
C13_Witness ==
  \E n \in Nodes : \E k \in DOMAIN snapshot :
    /\ Walked(n, k)
    /\ snapshot[k].type = "timer"
    /\ snapshot[k].updates_num = 0
    /\ SeriesNum(conf[n]) = 7
    /\ \E i, j \in 1..Len(dispatched) :
         /\ dispatched[i].type_instance =
              NameOf(k) \o <<"-", "c", "o", "u", "n", "t">>
         /\ dispatched[i].value = Zero
         /\ dispatched[j].type_instance =
              NameOf(k) \o <<"-", "p", "e", "r", "c", "e", "n", "t", "i", "l",
                             "e", "-", "9", "0">>
         /\ dispatched[j].value = NaN

\* The percentiles of the model, as printed.
PercentileText(p) ==
  IF p = Fin(90, 1) THEN <<"9", "0">> ELSE IF p = Fin(50, 1) THEN <<"5", "0">>
  ELSE <<"?">>

\* The names of the series of a timer, in the order required.
SeriesNames(c, full) ==
  <<full \o <<"-", "a", "v", "e", "r", "a", "g", "e">> >>
  \o (IF c.timer_lower THEN <<full \o <<"-", "l", "o", "w", "e", "r">> >> ELSE <<>>)
  \o (IF c.timer_upper THEN <<full \o <<"-", "u", "p", "p", "e", "r">> >> ELSE <<>>)
  \o (IF c.timer_sum THEN <<full \o <<"-", "s", "u", "m">> >> ELSE <<>>)
  \o [i \in 1..Len(c.timer_percentile) |->
        full \o <<"-", "p", "e", "r", "c", "e", "n", "t", "i", "l", "e", "-">>
             \o PercentileText(c.timer_percentile[i])]
  \o (IF c.timer_count THEN <<full \o <<"-", "c", "o", "u", "n", "t">> >> ELSE <<>>)

\* C19: the value lists of one Timer in one flush are dispatched in the
\* order average, -lower, -upper, -sum, the percentiles as configured,
\* -count; -count has the value type gauge and all others latency; all
\* carry one timestamp, taken before the first of them is dispatched; and
\* the histogram is empty after the last.
C19_TimerSeries ==
  [][EmitStep("timer") =>
       LET c == conf[Cur]
           new == NewRecords
           first == Len(dispatched) + 1
       IN  /\ [i \in 1..Len(new) |-> new[i].type_instance]
                = SeriesNames(c, NameOf(Head(iter)))
           /\ \A i \in 1..Len(new) :
                new[i].type = IF c.timer_count /\ i = Len(new)
                              THEN "gauge" ELSE "latency"
           /\ Len(vl_time') = Len(dispatched')
           /\ \A i \in first..Len(dispatched') :
                vl_time'[i] = cdtime /\ vl_time'[i] # 0
           /\ \A i \in 1..Len(vl_time) : vl_time[i] < cdtime
           /\ metrics_tree'[Cur][Head(iter)].latency.num = 0
           /\ metrics_tree'[Cur][Head(iter)].latency.samples = <<>>]_vars

\* Scenario S4 has been flushed: rt-average 20, rt-upper 30 and
\* rt-percentile-90 30 were dispatched in this order with one timestamp,
\* and the histogram is empty.
C19_Witness ==
  \E n \in Nodes :
    /\ hist[n] = <<DgS4>>
    /\ Walked(n, <<"t", ":", "r", "t">>)
    /\ snapshot[<<"t", ":", "r", "t">>].updates_num = 3
    /\ metrics_tree[n][<<"t", ":", "r", "t">>].latency.num = 0
    /\ [i \in 1..Len(dispatched) |-> dispatched[i].value]
         = <<Fin(20, 1), Fin(30, 1), Fin(30, 1)>>
    /\ [i \in 1..Len(dispatched) |-> dispatched[i].type_instance]
         = SeriesNames(conf[n], <<"r", "t">>)
    /\ vl_time = <<1, 1, 1>>

\* t is v with its fraction cut off.
IsTruncation(t, v) ==
  IF v.n >= 0 THEN t * v.d <= v.n /\ v.n < (t + 1) * v.d
  ELSE (t - 1) * v.d < v.n /\ v.n <= t * v.d

\* What a flush dispatches for a counter: a derive with the integer part
\* of the accumulated value (some integer if the value is not finite),
\* then a gauge with the accumulated value, under one type_instance.
CounterEmit ==
  EmitStep("counter") =>
    LET m == metrics_tree[Cur][Head(iter)]
        new == NewRecords
    IN  /\ Len(new) = 2
        /\ new[1].type = "derive"
        /\ new[2].type = "gauge"
        /\ new[1].type_instance = NameOf(Head(iter))
        /\ new[2].type_instance = NameOf(Head(iter))
        /\ new[2].value = m.value
        /\ new[1].value.k = "fin" /\ new[1].value.d = 1
        /\ isfinite(m.value) => IsTruncation(new[1].value.n, m.value)

\* Scenario S1, flushed after both lines: derive 11, then gauge 11.0.
ViewsRecords ==
  \A n \in Nodes :
    (hist[n] = <<DgS1>> /\ rpc[n] = "poll" /\ Walked(n, ViewsKey)) =>
      /\ Len(dispatched) = 2
      /\ dispatched[1].type = "derive" /\ dispatched[1].value = Fin(11, 1)
      /\ dispatched[2].type = "gauge" /\ dispatched[2].value = Fin(11, 1)

\* C20: for each Counter a flush emits it dispatches exactly two value
\* lists with the same type_instance, first a derive whose value is the
\* accumulated value converted to an integer, then a gauge with the
\* accumulated value; scenario S1 gives derive 11 and gauge 11.0.
C20_CounterRecords == [][CounterEmit]_vars /\ []ViewsRecords

\* A counter with the value -2.5 has been flushed as derive -2 and gauge
\* -2.5.
C20_Witness ==
  \E n \in Nodes :
    /\ hist[n] = <<DgDerive>>
    /\ Walked(n, <<"c", ":", "a">>)
    /\ Len(dispatched) >= 2
    /\ dispatched[1].type = "derive" /\ dispatched[1].value = Fin(-2, 1)
    /\ dispatched[2].type = "gauge" /\ dispatched[2].value = Fin(-5, 2)

\* What C14 compares of a registry: its keys and every entry's value,
\* updates_num, histogram and set membership.
RegistryView(tree) ==
  [k \in DOMAIN tree |->
     [value |-> tree[k].value, updates_num |-> tree[k].updates_num,
      latency |-> tree[k].latency, members |-> tree[k].set.members]]

\* The registry of node n as it was when the update in progress began: the
\* entry the update's own lookup has inserted was not there.
TreeBeforeUpdate(n) ==
  LET key == MetricKey(call[n].name, call[n].type)
  IN  IF rpc[n] = "modify" /\ key \in DOMAIN acct[n] /\ acct[n][key].pending
      THEN [k \in DOMAIN metrics_tree[n] \ {key} |-> metrics_tree[n][k]]
      ELSE metrics_tree[n]

\* C14: when an allocation fails inside an update, the update is dropped
\* and the node's registry (keys, values, updates_num, histograms, set
\* memberships) is the same as before the update began.
C14_AllocFailureUnchanged ==
  [][\A n \in Nodes :
       (alloc_fails' # alloc_fails /\ rpc[n] \in {"lock", "modify"}
          /\ rpc'[n] # rpc[n]) =>
         RegistryView(metrics_tree'[n]) = RegistryView(TreeBeforeUpdate(n))]_vars

\* statsd_read has returned after the host refused one of the value lists.
DispatchRefused ==
  /\ rd_pc = "idle"
  /\ reads > 0
  /\ \E i \in 1..Len(dispatched) :
       plugin_dispatch_values(dispatched[i], sink) # 0

\* The flush goes on whatever the host answers: every entry the walk does
\* not mark is emitted and reset.
FlushContinues ==
  (rd_pc = "walk" /\ iter' # iter /\ Head(iter) \in DOMAIN metrics_tree[Cur]
     /\ ~WalkMarks) =>
    /\ Len(dispatched') > Len(dispatched)
    /\ metrics_tree'[Cur][Head(iter)].updates_num = 0

\* C15: when the host's dispatch returns non-zero for some metric during
\* a flush, statsd_read returns non-zero, and the flush nevertheless emits
\* and resets all remaining metrics.
C15_DispatchFailurePropagated ==
  [](DispatchRefused => read_ret # 0) /\ [][FlushContinues]_vars

\* The ways a receive thread ends by acting on a cancellation request.
CancelCauses == {"poll", "recv", "testcancel"}

\* The thread of node n ends, or acts on a cancellation request, only when
\* it is not inside statsd_parse_buffer.
EndsBetweenDatagrams(n) ==
  ((rpc[n] # "exited" /\ rpc'[n] = "exited")
     \/ (cancel_pending[n] /\ ~cancel_pending'[n])) =>
    /\ rpc[n] \in {"init", "poll"}
    /\ buffer[n] = NULL

\* A thread that has ended has applied every line of every datagram it
\* has received.
WholeDatagramsApplied ==
  \A n \in Threads :
    (rpc[n] = "exited" /\ Undisturbed) =>
      /\ buffer[n] = NULL
      /\ metrics_tree[n] = RegistryAfter(<<>>, AcceptedOf(hist[n]))

\* C16: the receive thread acts on a cancellation request only between
\* datagrams: once statsd_parse_buffer has started on a datagram, every
\* line of it is processed before the thread can end, so no line is left
\* half-applied and no datagram partially applied.
C16_CancelBetweenDatagrams ==
  [][\A n \in Threads : EndsBetweenDatagrams(n)]_vars /\ []WholeDatagramsApplied

\* statsd_shutdown has cancelled the first thread, which ended with its
\* datagram applied in full, and waits for the second, which has the
\* request pending while it is between the two lines of its datagram.
C16_Witness ==
  /\ DOMAIN rpc = {1, 2}
  /\ Undisturbed
  /\ rpc[1] = "exited" /\ exit_cause[1] \in CancelCauses
  /\ hist[1] = <<DgCounter>>
  /\ metrics_tree[1] = RegistryAfter(<<>>, AcceptedLines(DgCounter))
  /\ sd_pc = "join"
  /\ cancel_pending[2]
  /\ rpc[2] \in {"lock", "modify"}
  /\ metrics_tree[2] # <<>>
  /\ metrics_tree[2] # RegistryAfter(<<>>, AcceptedOf(hist[2]))

\* C17: at shutdown every receive thread is cancelled and joined before
\* any node state is freed: statsd_threads_free runs only after all
\* receive threads have ended, so none of them touches a freed registry
\* or configuration.
C17_JoinBeforeFree ==
  /\ sd_pc = "join" => (cancel_pending[sd_i + 1] \/ rpc[sd_i + 1] = "exited")
  /\ sd_pc \in {"cancel", "join"} => \A n \in 1..sd_i : rpc[n] = "exited"
  /\ (sd_pc \in {"free", "done"} \/ freed) =>
       \A n \in Threads : rpc[n] = "exited"

\* Two threads that had received a datagram each were cancelled and
\* joined, and the node state has been freed.
C17_Witness ==
  /\ freed
  /\ DOMAIN rpc = {1, 2}
  /\ \A n \in {1, 2} :
       rpc[n] = "exited" /\ exit_cause[n] \in CancelCauses /\ hist[n] # <<>>

\* C18: every socket a receive thread has opened is closed on every way
\* the thread ends: cancellation (at poll, recv or pthread_testcancel),
\* EINTR and any other error of poll each run statsd_network_release
\* exactly once, and a failed statsd_network_init leaves no socket open.
C18_SocketsClosed ==
  \A n \in Threads :
    /\ released[n] <= 1
    /\ rpc[n] = "exited" =>
         /\ open_fds[n] = {}
         /\ exit_cause[n] \in CancelCauses \cup {"EINTR", "EBADF", "init failed"}
         /\ released[n] = IF exit_cause[n] = "init failed" THEN 0 ELSE 1
    /\ rpc[n] \notin {"init", "exited"} =>
         /\ released[n] = 0
         /\ fds[n] # <<>>
         /\ open_fds[n] = {fds[n][i] : i \in 1..Len(fds[n])}

\* One thread has ended because its statsd_network_init failed, the other
\* was interrupted in poll after it had received a datagram; no socket is
\* open.
C18_Witness ==
  /\ DOMAIN rpc = {1, 2}
  /\ rpc[1] = "exited" /\ exit_cause[1] = "init failed" /\ released[1] = 0
  /\ rpc[2] = "exited" /\ exit_cause[2] = "EINTR" /\ released[2] = 1
  /\ hist[2] # <<>>
  /\ open_fds = <<{}, {}>>

\* The entry k of node n is whole: its payload reflects exactly the
\* updates counted for it, and the update that inserted it has made its
\* payload change.
ObservedWhole(n, k) ==
  LET m == metrics_tree[n][k]
      a == acct[n][k]
  IN  /\ a.total > 0
      /\ m.updates_num = a.applied
      /\ m.type \in {"counter", "gauge"} => m.value = a.sum
      /\ m.type = "timer" => ~m.latency.null /\ m.latency.num = a.applied
      /\ m.type = "set" => m.set.members = a.members

\* A flush that holds the lock of a node sees whole entries only.
NoHalfApplied ==
  \A n \in Nodes :
    InFlush(n) => \A k \in DOMAIN metrics_tree[n] : ObservedWhole(n, k)

\* Between two lines the registry is that of the accepted lines received
\* so far without those still in the buffer, applied in their order.
LinesInOrder ==
  \A n \in Nodes :
    (rpc[n] \in {"poll", "parse", "lock"} /\ Undisturbed) =>
      LET acc  == AcceptedOf(hist[n])
          rest == AcceptedLines(buffer[n])
      IN  metrics_tree[n] =
            RegistryAfter(<<>>, SubSeq(acc, 1, Len(acc) - Len(rest)))

\* C21: the updates of one datagram are applied in line order, and each
\* line's update is atomic with respect to flush: a flush may run between
\* two lines of a datagram but never sees a half-applied line (a payload
\* that reflects an update not counted in updates_num, or an entry
\* inserted by an update whose payload change has not been made).
C21_LineAtomic == NoHalfApplied /\ LinesInOrder

\* C22: every invocation of statsd_read flushes every configured node,
\* whatever the state of the nodes earlier in the list: when statsd_read
\* has returned, it has been through every node that has a registry.
C22_EveryNodeFlushed ==
  (rd_pc = "idle" /\ reads > 0) =>
    \A n \in Nodes : n \notin no_tree => n <= thread_num

\* The receive loop of node n goes on after an error: EAGAIN of poll, or
\* any error of recv. The thread is back in poll with its sockets, and
\* nothing of the registry or of the datagrams on their way has changed.
BenignStep(n) ==
  loop_err'[n] # loop_err[n] =>
    /\ loop_err'[n] \in {"EAGAIN", "EWOULDBLOCK", "ECONNREFUSED"}
    /\ rpc[n] = "poll" /\ rpc'[n] = "poll"
    /\ UNCHANGED <<metrics_tree, sockbuf, fds, open_fds, released, exit_cause>>

\* The receive loop of node n ends: by EINTR or another error of poll that
\* is not EAGAIN, with the sockets closed by one run of the cleanup
\* handler and the registry as it was.
LoopEndStep(n) ==
  (rpc[n] # "exited" /\ rpc'[n] = "exited") =>
    /\ exit_cause'[n] \in {"EINTR", "EBADF"}
    /\ released'[n] = released[n] + 1
    /\ open_fds'[n] = {}
    /\ metrics_tree' = metrics_tree

\* Once the loop of node n has ended, only a flush changes the node's
\* registry, and a flush emits and resets every entry it does not mark.
AfterLoopEnd(n) ==
  rpc[n] = "exited" =>
    /\ metrics_tree'[n] # metrics_tree[n] => InFlush(n)
    /\ (Cur = n /\ rd_pc = "walk" /\ iter' # iter
          /\ Head(iter) \in DOMAIN metrics_tree[n] /\ ~WalkMarks) =>
         /\ Len(dispatched') > Len(dispatched)
         /\ metrics_tree'[n][Head(iter)].updates_num = 0

\* C23: EAGAIN from poll and EAGAIN or EWOULDBLOCK from recv are benign
\* and the loop keeps running; any other error of recv is logged and the
\* loop goes on; EINTR and any other error from poll end the loop, with
\* the sockets closed; after that the node's registry is intact and later
\* flushes still emit and reset its entries.
C23_LoopErrors ==
  [][\A n \in Threads : BenignStep(n) /\ LoopEndStep(n) /\ AfterLoopEnd(n)]_vars

\* A loop that went on after a failed recv has received a datagram and
\* was then ended by EINTR; a flush after that has emitted the node's
\* entry and reset it.
C23_Witness ==
  \E n \in Nodes : \E k \in DOMAIN snapshot :
    /\ loop_err[n] = "ECONNREFUSED"
    /\ rpc[n] = "exited" /\ exit_cause[n] = "EINTR"
    /\ open_fds[n] = {}
    /\ Walked(n, k)
    /\ snapshot[k].updates_num > 0
    /\ k \in DOMAIN metrics_tree[n] /\ metrics_tree[n][k].updates_num = 0
    /\ dispatched # <<>>

\* metrics_lock of a node is held by its receive thread exactly inside a
\* handler, between lookup and return, and by the reader exactly inside
\* the flush of that node.
LockHeldInside ==
  \A n \in Threads :
    /\ metrics_lock[n] = "recv" <=> rpc[n] = "modify"
    /\ metrics_lock[n] = "read" <=> InFlush(n)

\* The receive thread of node n does not end with the lock in its hand.
NoEndWithLock(n) ==
  (rpc[n] # "exited" /\ rpc'[n] = "exited") =>
    metrics_lock[n] # "recv" /\ metrics_lock'[n] # "recv"

\* C24: every path through the update handlers and through statsd_read,
\* error returns included, releases metrics_lock before it returns, and
\* the receive thread never ends while it holds the lock; so a flush that
\* waits for a node's lock gets it in the end, also when the node's
\* receive thread has been cancelled or has died.
C24_LockDiscipline ==
  /\ []LockHeldInside
  /\ [][\A n \in Threads : NoEndWithLock(n)]_vars
  /\ (rd_pc = "lock") ~> (rd_pc # "lock")

\* An allocation failed inside a handler, the receive thread died later
\* in poll, and a flush has taken the node's lock after that.
C24_Witness ==
  /\ alloc_fails.num = 1
  /\ rpc[1] = "exited" /\ exit_cause[1] = "EINTR"
  /\ hist[1] # <<>>
  /\ InFlush(1)
  /\ metrics_lock[1] = "read"

\* The entries the removal loop of the current flush takes out.
RemovedNow == DOMAIN metrics_tree[Cur] \ DOMAIN metrics_tree'[Cur]

\* The entry k of the node under flush was idle when the flush locked the
\* node, was marked by the walk, and is as it was then.
RemovedIdle(k) ==
  /\ k \in DOMAIN snapshot
  /\ snapshot[k].updates_num = 0
  /\ IdleAndDeletable(conf[Cur], snapshot[k])
  /\ metrics_tree[Cur][k] = snapshot[k]

\* C25: marking an idle entry and removing it happen inside one critical
\* section, so every entry a flush removes has updates_num = 0 when it
\* is removed: an entry updated before the flush is not idle and is
\* emitted, not deleted, and an update after the flush re-creates the
\* entry.
C25_DeletionKeepsUpdates ==
  [][(rd_pc = "remove" /\ rd_pc' = "unlock") =>
       /\ metrics_lock[Cur] = "read"
       /\ \A k \in RemovedNow : RemovedIdle(k)]_vars

\* The reader emits the entry its iterator returns next.
EmitAny ==
  /\ rd_pc = "walk"
  /\ iter' # iter
  /\ Head(iter) \in DOMAIN metrics_tree[Cur]
  /\ ~WalkMarks

\* What the emit step leaves of the entry: everything but updates_num, the
\* members of a set and the samples of a timer's histogram.
FlushFrame ==
  EmitAny =>
    LET k == Head(iter)
        m == metrics_tree[Cur][k]
        r == metrics_tree'[Cur][k]
    IN  /\ DOMAIN metrics_tree'[Cur] = DOMAIN metrics_tree[Cur]
        /\ \A j \in DOMAIN metrics_tree[Cur] \ {k} :
             metrics_tree'[Cur][j] = metrics_tree[Cur][j]
        /\ \A n \in Nodes \ {Cur} : metrics_tree'[n] = metrics_tree[n]
        /\ r.type = m.type
        /\ r.value = m.value
        /\ r.updates_num = 0
        /\ r.set.null = m.set.null
        /\ r.set.members = IF m.type = "set" THEN {} ELSE m.set.members
        /\ r.latency.null = m.latency.null
        /\ r.latency = IF m.type = "timer" /\ ~m.latency.null
                       THEN [m.latency EXCEPT !.num = 0, !.sum = Zero,
                                              !.min = Zero, !.max = Zero,
                                              !.samples = <<>>]
                       ELSE m.latency

\* What is emitted for a counter is the sum of all deltas since its
\* creation, and for a gauge its last value, idle or not.
EmitsAccumulated ==
  (EmitAny /\ metrics_tree[Cur][Head(iter)].type \in {"counter", "gauge"}) =>
    LET new == NewRecords
    IN  /\ new # <<>>
        /\ new[Len(new)].type = "gauge"
        /\ new[Len(new)].value = acct[Cur][Head(iter)].sum
        /\ new[Len(new)].value = metrics_tree'[Cur][Head(iter)].value

\* C26: for an entry that a flush emits and keeps, the flush changes only
\* updates_num (to 0), a Set's membership (to empty) and a Timer's
\* histogram (to empty); the value of a Counter or Gauge is left as it
\* is, so a counter's emitted value is the sum of all deltas since the
\* entry's creation and an idle gauge re-emits its last value.
C26_FlushFrame == [][FlushFrame /\ EmitsAccumulated]_vars

\* The gauge of scenario S2 is idle in the second flush, which has
\* emitted its last value again and left it in place.
C26_Witness ==
  \E n \in Nodes :
    /\ reads = 2
    /\ Walked(n, TempKey)
    /\ snapshot[TempKey].updates_num = 0
    /\ acct[n][TempKey].flushed > 0
    /\ metrics_tree[n][TempKey].value = acct[n][TempKey].sum
    /\ metrics_tree[n][TempKey].value # Zero
    /\ \E i \in RecordsOf(n, TempKey, "gauge") :
         dispatched[i].value = metrics_tree[n][TempKey].value

\* The walk of a flush comes to an entry whose type has its Delete* flag
\* set: after an update it is emitted and reset and not marked; idle, it
\* is marked and nothing is emitted.
WalkOfDeletable ==
  (rd_pc = "walk" /\ iter' # iter /\ Head(iter) \in DOMAIN metrics_tree[Cur]
     /\ DeleteFlag(conf[Cur], metrics_tree[Cur][Head(iter)].type)) =>
    IF metrics_tree[Cur][Head(iter)].updates_num > 0
    THEN /\ Len(dispatched') > Len(dispatched)
         /\ metrics_tree'[Cur][Head(iter)].updates_num = 0
         /\ to_be_deleted' = to_be_deleted
    ELSE /\ dispatched' = dispatched
         /\ to_be_deleted' = Append(to_be_deleted, Head(iter))

\* Of the entries whose type has its Delete* flag set, the removal loop of
\* a flush takes out those that were idle when the flush locked the node
\* and leaves those the flush has emitted.
RemovesIdleOnly ==
  (rd_pc = "remove" /\ rd_pc' = "unlock") =>
    \A k \in DOMAIN snapshot :
      DeleteFlag(conf[Cur], snapshot[k].type) =>
        (k \in RemovedNow <=> snapshot[k].updates_num = 0)

\* An entry comes into a registry only by an update for its type and name.
AppearsByUpdate ==
  \A n \in Nodes : \A k \in DOMAIN metrics_tree'[n] \ DOMAIN metrics_tree[n] :
    /\ rpc[n] = "lock"
    /\ k = MetricKey(call[n].name, call[n].type)

\* C27: with the Delete* flag of its type set, an entry that gets no more
\* updates is emitted and reset by the first flush after its last update,
\* removed without being emitted by the second, and does not come back
\* until a new update for its type and name arrives.
C27_BoundedRemoval ==
  [][WalkOfDeletable /\ RemovesIdleOnly /\ AppearsByUpdate]_vars

====
